---- MODULE Spec2Model ----
(***************************************************************************)
(* Catalog reconciliation of a CFServiceBroker: the broker controller      *)
(* (controllers/services/brokers/controller.go) fetches the credentials    *)
(* secret, validates it, fetches the broker catalog and upserts one        *)
(* CFServiceOffering per catalog service and one CFServicePlan per         *)
(* catalog plan, then sets the broker's Ready condition.                   *)
(***************************************************************************)
EXTENDS Integers, Sequences, FiniteSets, TLC

VARIABLES
    brokers,    \* CFServiceBroker objects of the cluster, by name
    secrets,    \* Secret objects of the cluster, by <<namespace, name>>
    upstream,   \* the catalog document the broker endpoint serves
    offerings,  \* CFServiceOffering objects, by <<namespace, name>>
    plans,      \* CFServicePlan objects, by <<namespace, name>>
    last,       \* record of the most recent ReconcileResource invocation
    requests,   \* record of the most recent secretToServiceBroker call
    inflight,   \* the CreateOrPatch call that has read its object and not written
    listed,     \* record of the most recent ListPlans call
    fake        \* the CFServicePlanRepository fake and the goroutines calling it

vars == <<brokers, secrets, upstream, offerings, plans, last, requests, inflight, listed,
          fake>>

(***************************************************************************)
(* Bounds of the model.                                                    *)
(***************************************************************************)
MaxServices == 2    \* services of a catalog document
MaxPlans == 2       \* plans of a catalog document, over all its services
MaxEdits == 1       \* changes of the document the upstream serves
MaxGeneration == 2  \* metadata.generation of a broker
MaxCalls == 2       \* calls each goroutine makes on the fake
MaxVersion == 2     \* resourceVersion of a secret

ServiceIDs == {"s1", "s2"}
PlanIDs == {"p1", "p2"}
Revisions == {"v1", "v2"}

(***************************************************************************)
(* Program constants.                                                      *)
(***************************************************************************)
RequeueAfterSeconds == 2

Nil == "nil"
\* An error value is a pair <<what failed, about what>>; NoError is Go's nil error.
NoError == <<Nil, "">>
Error(what, about) == <<what, about>>
RelServiceBrokerLabel == "korifi.cloudfoundry.org/rel-service-broker"
RelServiceOfferingLabel == "korifi.cloudfoundry.org/rel-service-offering"
CredentialsSecretKey == "credentials"
UsernameCredentialsKey == "username"
PasswordCredentialsKey == "password"

SeqsUpTo(S, n) == UNION {[1..k -> S] : k \in 0..n}

(***************************************************************************)
(* The catalog document (osbapi.Catalog).  A map[string]any is a record    *)
(* [isNil, kv]: the nil map, or a set of <<key, value>> pairs.             *)
(***************************************************************************)
NilMap == [isNil |-> TRUE, kv |-> {}]
MapOf(pairs) == [isNil |-> FALSE, kv |-> pairs]
HasKey(m, k) == \E p \in m.kv : p[1] = k
Lookup(m, k) == (CHOOSE p \in m.kv : p[1] = k)[2]

\* A plan as the service of ID service lists it: two services that list a plan
\* of the same ID describe it each in its own words.
CatalogPlan(service, id, rev) ==
    [ID |-> id,
     Name |-> <<"plan-name", id, rev>>,
     Description |-> <<"plan-description", service, rev>>,
     Free |-> (rev = "v1"),
     Bindable |-> (rev = "v2"),
     PlanUpdateable |-> (rev = "v1"),
     Metadata |-> IF rev = "v1" THEN NilMap ELSE MapOf({<<"foo", "bar">>}),
     Schemas |-> <<"schemas", rev>>]

CatalogService(id, rev, planIds) ==
    [ID |-> id,
     Name |-> <<"service-name", id, rev>>,
     Description |-> <<"service-description", rev>>,
     Tags |-> <<"tag", rev>>,
     Requires |-> <<"requires", rev>>,
     BrokerCatalogFeatures |-> [PlanUpdateable |-> (rev = "v1"), Bindable |-> (rev = "v2")],
     Metadata |-> IF rev = "v1" THEN NilMap
                  ELSE MapOf({<<"documentationUrl", "https://doc">>}),
     Plans |-> [i \in 1..Len(planIds) |-> CatalogPlan(id, planIds[i], rev)]]

\* A catalog shape is a sequence of <<service id, sequence of plan ids>>; the
\* upstream serves the document of a shape at a revision of its field values.
RECURSIVE TotalPlans(_)
TotalPlans(shape) ==
    IF shape = <<>> THEN 0 ELSE Len(Head(shape)[2]) + TotalPlans(Tail(shape))

CatalogShapes ==
    {sh \in SeqsUpTo(ServiceIDs \X SeqsUpTo(PlanIDs, MaxPlans), MaxServices) :
        TotalPlans(sh) <= MaxPlans}

\* The service IDs and the plan IDs of a shape, in the order it lists them.
ShapeServiceIDs(sh) == [i \in 1..Len(sh) |-> sh[i][1]]
RECURSIVE ShapePlanIDs(_)
ShapePlanIDs(sh) == IF sh = <<>> THEN <<>> ELSE Head(sh)[2] \o ShapePlanIDs(Tail(sh))

\* Shapes that differ only in which ID is called s1 or p1 behave alike: a
\* canonical shape lists s1 first among its services and p1 first among its
\* plans.
CanonicalShapes ==
    {sh \in CatalogShapes :
        /\ sh # <<>> => ShapeServiceIDs(sh)[1] = "s1"
        /\ ShapePlanIDs(sh) # <<>> => ShapePlanIDs(sh)[1] = "p1"}

Catalog(shape, rev) ==
    [Services |-> [i \in 1..Len(shape) |-> CatalogService(shape[i][1], rev, shape[i][2])]]

Served(u) == Catalog(u.shape, u.rev)

RECURSIVE SumLens(_)
SumLens(ss) == IF ss = <<>> THEN 0 ELSE 1 + Len(Head(ss).Plans) + SumLens(Tail(ss))

\* Number of CreateOrPatch calls a complete walk of the catalog makes.
NumUpserts(catalog) == SumLens(catalog.Services)

(***************************************************************************)
(* Helpers of the repository that the controller calls.                    *)
(***************************************************************************)
\* tools.NamespacedUUID: a deterministic, collision-free name for the pair.
NamespacedUUID(namespace, name) == <<"uuid", namespace, name>>

\* json.Marshal of a map[string]any: the nil map marshals to null.
Marshal(m) == [json |-> IF m.isNil THEN "null" ELSE "object", members |-> m.kv]

NoRawExtension == [set |-> FALSE, raw |-> Marshal(NilMap)]
RawExtension(raw) == [set |-> TRUE, raw |-> raw]

\* k8s.ReadyConditionBuilder: not ready with reason Unknown until told otherwise.
NewReadyConditionBuilder(obj) ==
    [status |-> "False", reason |-> "Unknown", message |-> Error("", ""),
     observedGeneration |-> obj.generation]
WithReason(builder, reason) == [builder EXCEPT !.reason = reason]
WithError(builder, err) ==
    IF err = NoError THEN builder ELSE [builder EXCEPT !.message = err]
Ready(builder) == [builder EXCEPT !.status = "True", !.reason = "Ready"]
Build(builder) ==
    [type |-> "Ready", status |-> builder.status, reason |-> builder.reason,
     message |-> builder.message, observedGeneration |-> builder.observedGeneration]

\* meta.SetStatusCondition: one condition per type, the new one replaces the old.
SetStatusCondition(conditions, condition) ==
    {c \in conditions : c.type # condition.type} \cup {condition}

(***************************************************************************)
(* validateCredentials.  The bytes under a secret key are modelled by the  *)
(* JSON text they hold: malformed text, null, an array, or an object with  *)
(* a set of member names.  An absent key yields no bytes at all.           *)
(***************************************************************************)
NoBytes == [kind |-> "empty", keys |-> {}]
JsonObject(keys) == [kind |-> "object", keys |-> keys]
JsonTexts ==
    {[kind |-> k, keys |-> {}] : k \in {"malformed", "null", "array"}}
        \cup {JsonObject(ks) : ks \in SUBSET {UsernameCredentialsKey, PasswordCredentialsKey}}

DataAt(data, key) == IF key \in DOMAIN data THEN data[key] ELSE NoBytes

\* json.Unmarshal into a map[string]any{}: null leaves the map empty.
Unmarshal(bytes) ==
    CASE bytes.kind = "object" -> [err |-> NoError, creds |-> bytes.keys]
      [] bytes.kind = "null" -> [err |-> NoError, creds |-> {}]
      [] OTHER -> [err |-> Error("invalid credentials secret", bytes.kind), creds |-> {}]

RECURSIVE firstMissing(_, _)
firstMissing(creds, ks) ==
    IF ks = <<>> THEN NoError
    ELSE IF Head(ks) \notin creds
         THEN Error("broker credentials secret does not specify", Head(ks))
         ELSE firstMissing(creds, Tail(ks))

\* A plausible slip: only the username is required.
validateCredentials_UsernameOnly(credentialsSecret) ==
    LET parsed == Unmarshal(DataAt(credentialsSecret.data, CredentialsSecretKey))
    IN  IF parsed.err # NoError THEN parsed.err
        ELSE firstMissing(parsed.creds, <<UsernameCredentialsKey>>)

validateCredentials(credentialsSecret) ==
    LET parsed == Unmarshal(DataAt(credentialsSecret.data, CredentialsSecretKey))
    IN  IF parsed.err # NoError THEN parsed.err
        ELSE firstMissing(parsed.creds, <<UsernameCredentialsKey, PasswordCredentialsKey>>)

(***************************************************************************)
(* controllerutil.CreateOrPatch on one kind of object.  A failing call     *)
(* (the read or the write is refused by the API server, for the reason     *)
(* refused) writes nothing.  An existing object whose mutation changes     *)
(* nothing is not patched.                                                 *)
(***************************************************************************)
\* The reasons for which the API server refuses a call.
Refusals == {"Conflict", "InternalError"}
\* failAt is <<n, reason>>: the n-th CreateOrPatch call of a walk is refused
\* for the reason; NoFailure: none is.
NoFailure == <<0, Nil>>
Refusal(failAt, n) == IF failAt[1] = n THEN failAt[2] ELSE Nil

NewObject == [labels |-> <<>>, annotations |-> <<>>, spec |-> <<>>]

\* The object CreateOrPatch hands to the mutate function: the stored one, or a
\* new one when the read finds none.
Existing(store, key) == IF key \in DOMAIN store THEN store[key] ELSE NewObject

\* A plausible slip: an existing object is patched without comparing the mutated
\* object with the one read.
CreateOrPatch_AlwaysPatch(store, key, mutated, refused) ==
    IF refused # Nil
    THEN [store |-> store, result |-> "unchanged", err |-> Error("CreateOrPatch", refused)]
    ELSE IF key \notin DOMAIN store
    THEN [store |-> (key :> mutated) @@ store, result |-> "created", err |-> NoError]
    ELSE [store |-> [store EXCEPT ![key] = mutated], result |-> "updated", err |-> NoError]

\* mutated is the mutate function's result on Existing(store, key).
CreateOrPatch(store, key, mutated, refused) ==
    IF refused # Nil
    THEN [store |-> store, result |-> "unchanged", err |-> Error("CreateOrPatch", refused)]
    ELSE IF key \notin DOMAIN store
    THEN [store |-> (key :> mutated) @@ store, result |-> "created", err |-> NoError]
    ELSE IF mutated = store[key]
    THEN [store |-> store, result |-> "unchanged", err |-> NoError]
    ELSE [store |-> [store EXCEPT ![key] = mutated], result |-> "updated", err |-> NoError]

toSpecServiceOffering(catalogService) ==
    [Name |-> catalogService.Name,
     Description |-> catalogService.Description,
     Tags |-> catalogService.Tags,
     Requires |-> catalogService.Requires,
     DocumentationURL |->
        IF ~catalogService.Metadata.isNil /\ HasKey(catalogService.Metadata, "documentationUrl")
        THEN Lookup(catalogService.Metadata, "documentationUrl") ELSE Nil,
     BrokerCatalog |->
        [Id |-> catalogService.ID,
         Features |-> catalogService.BrokerCatalogFeatures,
         Metadata |-> IF catalogService.Metadata.isNil THEN NoRawExtension
                      ELSE RawExtension(Marshal(catalogService.Metadata))]]

toSpecServicePlan(catalogPlan) ==
    [Name |-> catalogPlan.Name,
     Free |-> catalogPlan.Free,
     Description |-> catalogPlan.Description,
     BrokerCatalog |->
        [ID |-> catalogPlan.ID,
         Metadata |-> RawExtension(Marshal(catalogPlan.Metadata)),
         Features |-> [PlanUpdateable |-> catalogPlan.PlanUpdateable,
                       Bindable |-> catalogPlan.Bindable]],
     Schemas |-> catalogPlan.Schemas]

(***************************************************************************)
(* The walk of the catalog.  w is the state of one walk: the two stores,   *)
(* the CreateOrPatch calls made so far, the writes they issued, and the    *)
(* error that stopped the walk.  failAt names the call that fails and the   *)
(* reason (NoFailure: none does).                                          *)
(***************************************************************************)
\* The element of a set of one element.  The walk binds each intermediate
\* result as the element of such a set, so that it is computed once.
The(S) == CHOOSE x \in S : TRUE

StartWalk(os, ps) ==
    [offerings |-> os, plans |-> ps, calls |-> <<>>, writes |-> <<>>, err |-> NoError]

Called(w, kind, key, id, r) ==
    [calls |-> Append(w.calls, [kind |-> kind, key |-> key, id |-> id]),
     writes |-> IF r.result = "unchanged" THEN w.writes
                ELSE Append(w.writes, [op |-> r.result, kind |-> kind, key |-> key]),
     err |-> r.err]

\* A plausible slip: the plan's name is derived from its offering's name, not
\* from the broker's.
reconcileCatalogPlan_NameFromOffering(w, serviceOffering, catalogPlan, failAt) ==
    LET name == NamespacedUUID(serviceOffering.name, catalogPlan.ID)
        key == <<serviceOffering.namespace, name>>
        mutate(servicePlan) ==
            [labels |-> (RelServiceBrokerLabel :> serviceOffering.labels[RelServiceBrokerLabel])
                        @@ (RelServiceOfferingLabel :> serviceOffering.name)
                        @@ servicePlan.labels,
             annotations |-> servicePlan.annotations,
             spec |-> toSpecServicePlan(catalogPlan)]
        r == CreateOrPatch(w.plans, key, mutate(Existing(w.plans, key)),
                           Refusal(failAt, Len(w.calls) + 1))
    IN  [offerings |-> w.offerings, plans |-> r.store]
            @@ Called(w, "CFServicePlan", key, catalogPlan.ID, r)

\* A plausible slip: the plan is labelled with its broker only.
reconcileCatalogPlan_NoOfferingLabel(w, serviceOffering, catalogPlan, failAt) ==
    LET name == NamespacedUUID(serviceOffering.labels[RelServiceBrokerLabel], catalogPlan.ID)
        key == <<serviceOffering.namespace, name>>
        mutate(servicePlan) ==
            [labels |-> (RelServiceBrokerLabel :> serviceOffering.labels[RelServiceBrokerLabel])
                        @@ servicePlan.labels,
             annotations |-> servicePlan.annotations,
             spec |-> toSpecServicePlan(catalogPlan)]
        r == CreateOrPatch(w.plans, key, mutate(Existing(w.plans, key)),
                           Refusal(failAt, Len(w.calls) + 1))
    IN  [offerings |-> w.offerings, plans |-> r.store]
            @@ Called(w, "CFServicePlan", key, catalogPlan.ID, r)

reconcileCatalogPlan(w, serviceOffering, catalogPlan, failAt) ==
    LET name == NamespacedUUID(serviceOffering.labels[RelServiceBrokerLabel], catalogPlan.ID)
        key == <<serviceOffering.namespace, name>>
        mutate(servicePlan) ==
            [labels |-> (RelServiceBrokerLabel :> serviceOffering.labels[RelServiceBrokerLabel])
                        @@ (RelServiceOfferingLabel :> serviceOffering.name)
                        @@ servicePlan.labels,
             annotations |-> servicePlan.annotations,
             spec |-> toSpecServicePlan(catalogPlan)]
        r == CreateOrPatch(w.plans, key, mutate(Existing(w.plans, key)),
                           Refusal(failAt, Len(w.calls) + 1))
    IN  [offerings |-> w.offerings, plans |-> r.store]
            @@ Called(w, "CFServicePlan", key, catalogPlan.ID, r)

RECURSIVE reconcileCatalogPlans(_, _, _, _)
reconcileCatalogPlans(w, serviceOffering, catalogPlans, failAt) ==
    IF catalogPlans = <<>> THEN w
    ELSE The({IF w1.err # NoError
              THEN [w1 EXCEPT !.err = Error("failed to reconcile service plan", w1.err[2])]
              ELSE reconcileCatalogPlans(w1, serviceOffering, Tail(catalogPlans), failAt) :
                w1 \in {reconcileCatalogPlan(w, serviceOffering, Head(catalogPlans), failAt)}})

\* A plausible slip: the offering's name is derived from the catalog service
\* ID alone.
reconcileCatalogService_NameFromID(w, cfServiceBroker, catalogService, failAt) ==
    LET name == NamespacedUUID("", catalogService.ID)
        key == <<cfServiceBroker.namespace, name>>
        mutate(serviceOffering) ==
            [labels |-> (RelServiceBrokerLabel :> cfServiceBroker.name)
                        @@ serviceOffering.labels,
             annotations |-> serviceOffering.annotations,
             spec |-> toSpecServiceOffering(catalogService)]
        r == CreateOrPatch(w.offerings, key, mutate(Existing(w.offerings, key)),
                           Refusal(failAt, Len(w.calls) + 1))
        serviceOffering == [name |-> name, namespace |-> cfServiceBroker.namespace,
                            labels |-> r.store[key].labels]
    IN  The({IF w1.err # NoError
             THEN [w1 EXCEPT !.err = Error("failed to reconcile service offering", w1.err[2])]
             ELSE reconcileCatalogPlans(w1, serviceOffering, catalogService.Plans, failAt) :
                w1 \in {[offerings |-> r.store, plans |-> w.plans]
                            @@ Called(w, "CFServiceOffering", key, catalogService.ID, r)}})

\* A plausible slip: the error of the offering's upsert is dropped and the
\* plans of the service are upserted all the same.
reconcileCatalogService_PlansDespiteError(w, cfServiceBroker, catalogService, failAt) ==
    LET name == NamespacedUUID(cfServiceBroker.name, catalogService.ID)
        key == <<cfServiceBroker.namespace, name>>
        mutate(serviceOffering) ==
            [labels |-> (RelServiceBrokerLabel :> cfServiceBroker.name)
                        @@ serviceOffering.labels,
             annotations |-> serviceOffering.annotations,
             spec |-> toSpecServiceOffering(catalogService)]
        r == CreateOrPatch(w.offerings, key, mutate(Existing(w.offerings, key)),
                           Refusal(failAt, Len(w.calls) + 1))
        serviceOffering == [name |-> name, namespace |-> cfServiceBroker.namespace,
                            labels |-> mutate(Existing(w.offerings, key)).labels]
    IN  The({reconcileCatalogPlans([w1 EXCEPT !.err = NoError], serviceOffering,
                                   catalogService.Plans, failAt) :
                w1 \in {[offerings |-> r.store, plans |-> w.plans]
                            @@ Called(w, "CFServiceOffering", key, catalogService.ID, r)}})

reconcileCatalogService(w, cfServiceBroker, catalogService, failAt) ==
    LET name == NamespacedUUID(cfServiceBroker.name, catalogService.ID)
        key == <<cfServiceBroker.namespace, name>>
        mutate(serviceOffering) ==
            [labels |-> (RelServiceBrokerLabel :> cfServiceBroker.name)
                        @@ serviceOffering.labels,
             annotations |-> serviceOffering.annotations,
             spec |-> toSpecServiceOffering(catalogService)]
        r == CreateOrPatch(w.offerings, key, mutate(Existing(w.offerings, key)),
                           Refusal(failAt, Len(w.calls) + 1))
        serviceOffering == [name |-> name, namespace |-> cfServiceBroker.namespace,
                            labels |-> r.store[key].labels]
    IN  The({IF w1.err # NoError
             THEN [w1 EXCEPT !.err = Error("failed to reconcile service offering", w1.err[2])]
             ELSE reconcileCatalogPlans(w1, serviceOffering, catalogService.Plans, failAt) :
                w1 \in {[offerings |-> r.store, plans |-> w.plans]
                            @@ Called(w, "CFServiceOffering", key, catalogService.ID, r)}})

\* A plausible slip: the loop over the services runs from the last service of
\* the document to the first.
RECURSIVE reconcileCatalogServices_Reversed(_, _, _, _)
reconcileCatalogServices_Reversed(w, cfServiceBroker, catalogServices, failAt) ==
    IF catalogServices = <<>> THEN w
    ELSE The({IF w1.err # NoError THEN w1
              ELSE reconcileCatalogService(w1, cfServiceBroker, Head(catalogServices), failAt) :
                w1 \in {reconcileCatalogServices_Reversed(w, cfServiceBroker,
                                                          Tail(catalogServices), failAt)}})

\* A plausible slip: the loop over the services returns after the first one.
reconcileCatalogServices_FirstOnly(w, cfServiceBroker, catalogServices, failAt) ==
    IF catalogServices = <<>> THEN w
    ELSE reconcileCatalogService(w, cfServiceBroker, Head(catalogServices), failAt)

RECURSIVE reconcileCatalogServices(_, _, _, _)
reconcileCatalogServices(w, cfServiceBroker, catalogServices, failAt) ==
    IF catalogServices = <<>> THEN w
    ELSE The({IF w1.err # NoError THEN w1
              ELSE reconcileCatalogServices(w1, cfServiceBroker, Tail(catalogServices), failAt) :
                w1 \in {reconcileCatalogService(w, cfServiceBroker, Head(catalogServices),
                                                failAt)}})

\* A plausible slip: a walk that completes removes the broker's objects that
\* the catalog no longer lists.
reconcileCatalog_Prune(w, cfServiceBroker, catalog, failAt) ==
    LET w1 == reconcileCatalogServices(w, cfServiceBroker, catalog.Services, failAt)
        walked == {w1.calls[i].key : i \in 1..Len(w1.calls)}
        Kept(store) == [key \in DOMAIN store \cap walked |-> store[key]]
    IN  IF w1.err # NoError THEN w1
        ELSE [w1 EXCEPT !.offerings = Kept(@), !.plans = Kept(@)]

reconcileCatalog(w, cfServiceBroker, catalog, failAt) ==
    The({reconcileCatalogServices(w, cfServiceBroker, catalogServices, failAt) :
            catalogServices \in {catalog.Services}})

(***************************************************************************)
(* ReconcileResource.  getFails: the secret read fails for a cause other   *)
(* than the secret being absent; catalogFails: GetCatalog returns an       *)
(* error; failAt: the CreateOrPatch call of the walk that fails, and why.  *)
(* Return is the function's exit: the deferred SetStatusCondition runs,    *)
(* then the caller sees result; it gives the broker and the stores as the  *)
(* invocation leaves them, which Returned makes the next state.  last keeps what the invocation did: the   *)
(* calls it made in order, each with the answer it got (steps), the kind,  *)
(* key and catalog ID of each CreateOrPatch call (calls), how many objects *)
(* it created and patched, and whether it repeats a successful invocation  *)
(* against the catalog document that invocation saw (repeat).              *)
(***************************************************************************)
Result(requeueAfter, err) == [requeueAfter |-> requeueAfter, err |-> err]

Count(writes, op) == Cardinality({i \in 1..Len(writes) : writes[i].op = op})

\* A plausible slip: the condition is set before the successful return only,
\* not in a deferred function.
Return_NoDefer(cfServiceBroker, readyConditionBuilder, err, result, steps, fetched, w) ==
    [brokers |-> [brokers EXCEPT ![cfServiceBroker.name] =
            IF err # NoError THEN cfServiceBroker
            ELSE [cfServiceBroker EXCEPT !.status.conditions =
                    SetStatusCondition(@, Build(WithError(readyConditionBuilder, err)))]],
     offerings |-> w.offerings,
     plans |-> w.plans,
     last |-> [broker |-> cfServiceBroker.name,
                result |-> result,
                steps |-> IF err # NoError THEN steps
                          ELSE Append(steps, <<"SetStatusCondition",
                                Build(WithError(readyConditionBuilder, err)).status>>),
                fetched |-> fetched,
                created |-> Count(w.writes, "created"),
                updated |-> Count(w.writes, "updated"),
                repeat |-> /\ fetched
                           /\ last.broker = cfServiceBroker.name
                           /\ last.fetched /\ last.current
                           /\ last.result = Result(0, NoError),
                calls |-> w.calls,
                current |-> TRUE]]

Return(cfServiceBroker, readyConditionBuilder, err, result, steps, fetched, w) ==
    [brokers |-> [brokers EXCEPT ![cfServiceBroker.name] =
            [cfServiceBroker EXCEPT !.status.conditions =
                SetStatusCondition(@, Build(WithError(readyConditionBuilder, err)))]],
     offerings |-> w.offerings,
     plans |-> w.plans,
     last |-> [broker |-> cfServiceBroker.name,
                result |-> result,
                steps |-> Append(steps, <<"SetStatusCondition",
                            Build(WithError(readyConditionBuilder, err)).status>>),
                fetched |-> fetched,
                created |-> Count(w.writes, "created"),
                updated |-> Count(w.writes, "updated"),
                repeat |-> /\ fetched
                           /\ last.broker = cfServiceBroker.name
                           /\ last.fetched /\ last.current
                           /\ last.result = Result(0, NoError),
                calls |-> w.calls,
                current |-> TRUE]]

\* A plausible slip: the walk's error is logged and dropped, so the invocation
\* ends Ready.
reconcileAndReturn_Swallowed(observed, readyConditionBuilder, failAt) ==
    LET catalog == Served(upstream)
        w == reconcileCatalog(StartWalk(offerings, plans), observed, catalog, failAt)
        steps == <<<<"Get", "ok">>, <<"validateCredentials", "ok">>, <<"GetCatalog", "ok">>>>
                    \o [i \in 1..Len(w.calls) |->
                            <<"CreateOrPatch",
                              IF i = Len(w.calls) /\ w.err # NoError THEN "error" ELSE "ok">>]
    IN  Return(observed, Ready(readyConditionBuilder), NoError, Result(0, NoError),
               steps, TRUE, w)

\* A plausible slip: a failed walk undoes the writes it made before it failed.
reconcileAndReturn_Rollback(observed, readyConditionBuilder, failAt) ==
    LET catalog == Served(upstream)
        w == reconcileCatalog(StartWalk(offerings, plans), observed, catalog, failAt)
        steps == <<<<"Get", "ok">>, <<"validateCredentials", "ok">>, <<"GetCatalog", "ok">>>>
                    \o [i \in 1..Len(w.calls) |->
                            <<"CreateOrPatch",
                              IF i = Len(w.calls) /\ w.err # NoError THEN "error" ELSE "ok">>]
    IN  IF w.err # NoError
        THEN Return(observed, readyConditionBuilder, w.err,
                    Result(0, Error("failed to reconcile catalog", w.err[2])),
                    steps, TRUE, [w EXCEPT !.offerings = offerings, !.plans = plans])
        ELSE Return(observed, Ready(readyConditionBuilder), NoError, Result(0, NoError),
                    steps, TRUE, w)

\* A plausible slip: a conflict on an upsert is requeued after the fixed delay
\* instead of being returned.
reconcileAndReturn_RequeueOnConflict(observed, readyConditionBuilder, failAt) ==
    LET catalog == Served(upstream)
        w == reconcileCatalog(StartWalk(offerings, plans), observed, catalog, failAt)
        steps == <<<<"Get", "ok">>, <<"validateCredentials", "ok">>, <<"GetCatalog", "ok">>>>
                    \o [i \in 1..Len(w.calls) |->
                            <<"CreateOrPatch",
                              IF i = Len(w.calls) /\ w.err # NoError THEN "error" ELSE "ok">>]
    IN  IF w.err # NoError
        THEN Return(observed, readyConditionBuilder, w.err,
                    IF w.err[2] = "Conflict" THEN Result(RequeueAfterSeconds, NoError)
                    ELSE Result(0, Error("failed to reconcile catalog", w.err[2])),
                    steps, TRUE, w)
        ELSE Return(observed, Ready(readyConditionBuilder), NoError, Result(0, NoError),
                    steps, TRUE, w)

\* Lines 147-154: walk the fetched catalog, then report ready.
reconcileAndReturn(observed, readyConditionBuilder, failAt) ==
    LET catalog == Served(upstream)
        Steps(w) ==
            <<<<"Get", "ok">>, <<"validateCredentials", "ok">>, <<"GetCatalog", "ok">>>>
                \o [i \in 1..Len(w.calls) |->
                        <<"CreateOrPatch",
                          IF i = Len(w.calls) /\ w.err # NoError THEN "error" ELSE "ok">>]
    IN  The({The({IF w.err # NoError
                  THEN Return(observed, readyConditionBuilder, w.err,
                              Result(0, Error("failed to reconcile catalog", w.err[2])),
                              steps, TRUE, w)
                  ELSE Return(observed, Ready(readyConditionBuilder), NoError,
                              Result(0, NoError), steps, TRUE, w) :
                    steps \in {Steps(w)}}) :
                w \in {reconcileCatalog(StartWalk(offerings, plans), observed, catalog,
                                        failAt)}})

\* A plausible slip: the return after a failed validation is missing.
validateAndFetch_NoReturn(cfServiceBroker, readyConditionBuilder, credentialsSecret, catalogFails, failAt) ==
    LET invalid == validateCredentials(credentialsSecret)
        observed == [cfServiceBroker EXCEPT !.status.credentialsObservedVersion =
                        credentialsSecret.resourceVersion]
        builder == IF invalid # NoError
                   THEN WithReason(readyConditionBuilder, "SecretInvalid")
                   ELSE readyConditionBuilder
        validated == <<"validateCredentials", IF invalid # NoError THEN "error" ELSE "ok">>
    IN  IF catalogFails
        THEN Return(observed, WithReason(builder, "GetCatalogFailed"),
                    Error("GetCatalog", "failed"), Result(0, Error("GetCatalog", "failed")),
                    <<<<"Get", "ok">>, validated, <<"GetCatalog", "error">>>>,
                    FALSE, StartWalk(offerings, plans))
        ELSE Return(observed, builder, invalid, Result(0, invalid),
                    <<<<"Get", "ok">>, validated, <<"GetCatalog", "ok">>>>,
                    FALSE, StartWalk(offerings, plans))

\* A plausible slip: a failed catalog fetch is logged, the reason set, and nil
\* returned.
validateAndFetch_NilOnFetchError(cfServiceBroker, readyConditionBuilder, credentialsSecret, catalogFails, failAt) ==
    LET invalid == validateCredentials(credentialsSecret)
        observed == [cfServiceBroker EXCEPT !.status.credentialsObservedVersion =
                        credentialsSecret.resourceVersion]
    IN  IF invalid # NoError
        THEN Return(cfServiceBroker,
                    WithReason(readyConditionBuilder, "SecretInvalid"),
                    invalid, Result(0, invalid),
                    <<<<"Get", "ok">>, <<"validateCredentials", "error">>>>, FALSE,
                    StartWalk(offerings, plans))
        ELSE IF catalogFails
        THEN Return(observed,
                    WithReason(readyConditionBuilder, "GetCatalogFailed"),
                    Error("GetCatalog", "failed"), Result(0, NoError),
                    <<<<"Get", "ok">>, <<"validateCredentials", "ok">>,
                      <<"GetCatalog", "error">>>>,
                    FALSE, StartWalk(offerings, plans))
        ELSE reconcileAndReturn(observed, readyConditionBuilder, failAt)

\* A plausible slip: the secret's version is not recorded.
validateAndFetch_NoObservedVersion(cfServiceBroker, readyConditionBuilder, credentialsSecret, catalogFails, failAt) ==
    LET invalid == validateCredentials(credentialsSecret)
        observed == cfServiceBroker
    IN  IF invalid # NoError
        THEN Return(cfServiceBroker,
                    WithReason(readyConditionBuilder, "SecretInvalid"),
                    invalid, Result(0, invalid),
                    <<<<"Get", "ok">>, <<"validateCredentials", "error">>>>, FALSE,
                    StartWalk(offerings, plans))
        ELSE IF catalogFails
        THEN Return(observed,
                    WithReason(readyConditionBuilder, "GetCatalogFailed"),
                    Error("GetCatalog", "failed"), Result(0, Error("GetCatalog", "failed")),
                    <<<<"Get", "ok">>, <<"validateCredentials", "ok">>,
                      <<"GetCatalog", "error">>>>,
                    FALSE, StartWalk(offerings, plans))
        ELSE reconcileAndReturn(observed, readyConditionBuilder, failAt)

\* Lines 132-145: validate the fetched secret, record its version, fetch the
\* catalog.
\* A plausible slip: the observed credentials version is recorded before the
\* credentials are validated.
validateAndFetch_ObservedBeforeValidation(cfServiceBroker, readyConditionBuilder, credentialsSecret, catalogFails, failAt) ==
    LET invalid == validateCredentials(credentialsSecret)
        observed == [cfServiceBroker EXCEPT !.status.credentialsObservedVersion =
                        credentialsSecret.resourceVersion]
    IN  IF invalid # NoError
        THEN Return(observed,
                    WithReason(readyConditionBuilder, "SecretInvalid"),
                    invalid, Result(0, invalid),
                    <<<<"Get", "ok">>, <<"validateCredentials", "error">>>>, FALSE,
                    StartWalk(offerings, plans))
        ELSE IF catalogFails
        THEN Return(observed,
                    WithReason(readyConditionBuilder, "GetCatalogFailed"),
                    Error("GetCatalog", "failed"), Result(0, Error("GetCatalog", "failed")),
                    <<<<"Get", "ok">>, <<"validateCredentials", "ok">>,
                      <<"GetCatalog", "error">>>>,
                    FALSE, StartWalk(offerings, plans))
        ELSE reconcileAndReturn(observed, readyConditionBuilder, failAt)

validateAndFetch(cfServiceBroker, readyConditionBuilder, credentialsSecret, catalogFails, failAt) ==
    LET invalid == validateCredentials(credentialsSecret)
        observed == [cfServiceBroker EXCEPT !.status.credentialsObservedVersion =
                        credentialsSecret.resourceVersion]
    IN  IF invalid # NoError
        THEN Return(cfServiceBroker,
                    WithReason(readyConditionBuilder, "SecretInvalid"),
                    invalid, Result(0, invalid),
                    <<<<"Get", "ok">>, <<"validateCredentials", "error">>>>, FALSE,
                    StartWalk(offerings, plans))
        ELSE IF catalogFails
        THEN Return(observed,
                    WithReason(readyConditionBuilder, "GetCatalogFailed"),
                    Error("GetCatalog", "failed"), Result(0, Error("GetCatalog", "failed")),
                    <<<<"Get", "ok">>, <<"validateCredentials", "ok">>,
                      <<"GetCatalog", "error">>>>,
                    FALSE, StartWalk(offerings, plans))
        ELSE reconcileAndReturn(observed, readyConditionBuilder, failAt)

\* A plausible slip: every failed secret read is requeued and none surfaced.
ReconcileResource_RequeueAll(b, getFails, catalogFails, failAt) ==
    LET cfServiceBroker ==
            [brokers[b] EXCEPT !.status.observedGeneration = brokers[b].generation]
        readyConditionBuilder == NewReadyConditionBuilder(cfServiceBroker)
        secretKey == <<cfServiceBroker.namespace, cfServiceBroker.spec.credentials.name>>
        getErr == IF getFails THEN Error("Get", "InternalError")
                  ELSE IF secretKey \notin DOMAIN secrets THEN Error("Get", "NotFound")
                  ELSE NoError
    IN  IF getErr # NoError
        THEN Return(cfServiceBroker,
                    WithReason(readyConditionBuilder, "CredentialsSecretNotAvailable"),
                    getErr, Result(RequeueAfterSeconds, NoError),
                    <<<<"Get", getErr[2]>>>>, FALSE, StartWalk(offerings, plans))
        ELSE validateAndFetch(cfServiceBroker, readyConditionBuilder, secrets[secretKey],
                              catalogFails, failAt)

\* A plausible slip: the observed generation is recorded once the secret is
\* read, so an invocation that finds no secret leaves it behind.
ReconcileResource_ObservedAfterGet(b, getFails, catalogFails, failAt) ==
    LET cfServiceBroker ==
            [brokers[b] EXCEPT !.status.observedGeneration = brokers[b].generation]
        readyConditionBuilder == NewReadyConditionBuilder(brokers[b])
        secretKey == <<cfServiceBroker.namespace, cfServiceBroker.spec.credentials.name>>
        getErr == IF getFails THEN Error("Get", "InternalError")
                  ELSE IF secretKey \notin DOMAIN secrets THEN Error("Get", "NotFound")
                  ELSE NoError
    IN  IF getErr # NoError
        THEN Return(brokers[b],
                    WithReason(readyConditionBuilder, "CredentialsSecretNotAvailable"),
                    getErr,
                    IF getErr = Error("Get", "NotFound")
                    THEN Result(RequeueAfterSeconds, NoError) ELSE Result(0, getErr),
                    <<<<"Get", getErr[2]>>>>, FALSE, StartWalk(offerings, plans))
        ELSE validateAndFetch(cfServiceBroker, readyConditionBuilder, secrets[secretKey],
                              catalogFails, failAt)

\* Lines 105-130: set the observed generation, arm the deferred condition,
\* read the credentials secret.
ReconcileResource(b, getFails, catalogFails, failAt) ==
    LET cfServiceBroker ==
            [brokers[b] EXCEPT !.status.observedGeneration = brokers[b].generation]
        readyConditionBuilder == NewReadyConditionBuilder(cfServiceBroker)
        secretKey == <<cfServiceBroker.namespace, cfServiceBroker.spec.credentials.name>>
        getErr == IF getFails THEN Error("Get", "InternalError")
                  ELSE IF secretKey \notin DOMAIN secrets THEN Error("Get", "NotFound")
                  ELSE NoError
    IN  IF getErr # NoError
        THEN Return(cfServiceBroker,
                    WithReason(readyConditionBuilder, "CredentialsSecretNotAvailable"),
                    getErr,
                    IF getErr = Error("Get", "NotFound")
                    THEN Result(RequeueAfterSeconds, NoError) ELSE Result(0, getErr),
                    <<<<"Get", getErr[2]>>>>, FALSE, StartWalk(offerings, plans))
        ELSE validateAndFetch(cfServiceBroker, readyConditionBuilder, secrets[secretKey],
                              catalogFails, failAt)

(***************************************************************************)
(* The controller's work queue runs ReconcileResource on a broker; each    *)
(* collaborator call may fail.  Invocations are split by how far they get. *)
(***************************************************************************)
SecretKeyOf(b) == <<brokers[b].namespace, brokers[b].spec.credentials.name>>

Returned(out) ==
    /\ brokers' = out.brokers
    /\ offerings' = out.offerings
    /\ plans' = out.plans
    /\ last' = out.last

ReconcileSecretUnavailable ==
    \E b \in DOMAIN brokers, getFails \in BOOLEAN :
        /\ getFails \/ SecretKeyOf(b) \notin DOMAIN secrets
        /\ Returned(ReconcileResource(b, getFails, FALSE, NoFailure))
        /\ UNCHANGED <<secrets, upstream, requests, inflight, listed, fake>>

ReconcileWithSecret ==
    \E b \in DOMAIN brokers, catalogFails \in BOOLEAN,
       failAt \in {NoFailure} \cup ((1..NumUpserts(Served(upstream))) \X Refusals) :
        /\ SecretKeyOf(b) \in DOMAIN secrets
        /\ catalogFails => failAt = NoFailure
        /\ Returned(ReconcileResource(b, FALSE, catalogFails, failAt))
        /\ UNCHANGED <<secrets, upstream, requests, inflight, listed, fake>>

(***************************************************************************)
(* The environment: operators and the upstream broker.                     *)
(***************************************************************************)
ValidCredentials ==
    (CredentialsSecretKey :> JsonObject({UsernameCredentialsKey, PasswordCredentialsKey}))

\* What an operator puts into a credentials secret.
SecretPayloads ==
    {ValidCredentials,
     (CredentialsSecretKey :> JsonObject({UsernameCredentialsKey})),
     (CredentialsSecretKey :> [kind |-> "malformed", keys |-> {}])}

\* A secret is created or updated: it gets a resource version it did not have.
PutSecret(key, data) ==
    /\ \E rv \in 1..MaxVersion :
        /\ key \in DOMAIN secrets => rv > secrets[key].resourceVersion
        /\ secrets' = (key :> [resourceVersion |-> rv, data |-> data]) @@ secrets
    /\ UNCHANGED <<brokers, upstream, offerings, plans, last, requests, inflight, listed, fake>>

DeleteSecret(key) ==
    /\ key \in DOMAIN secrets
    /\ secrets' = [k \in DOMAIN secrets \ {key} |-> secrets[k]]
    /\ UNCHANGED <<brokers, upstream, offerings, plans, last, requests, inflight, listed, fake>>

\* An operator edits the broker's spec: the API server bumps its generation.
UpdateBroker(b) ==
    /\ brokers[b].generation < MaxGeneration
    /\ brokers' = [brokers EXCEPT ![b].generation = @ + 1]
    /\ UNCHANGED <<secrets, upstream, offerings, plans, last, requests, inflight, listed, fake>>

RemoveAt(seq, i) == [j \in 1..(Len(seq) - 1) |-> IF j < i THEN seq[j] ELSE seq[j + 1]]
SwapAt(seq, i) ==
    [j \in 1..Len(seq) |-> IF j = i THEN seq[i + 1] ELSE IF j = i + 1 THEN seq[i] ELSE seq[j]]

\* The shapes one step from sh: a service or a plan is added, withdrawn or
\* moved next to its neighbour.
ShapeEdits(sh) ==
    LET n == Len(sh)
    IN  {Append(sh, <<id, <<>>>>) : id \in {x \in ServiceIDs : n < MaxServices}}
        \cup {RemoveAt(sh, i) : i \in 1..n}
        \cup {SwapAt(sh, i) : i \in 1..(n - 1)}
        \cup {[sh EXCEPT ![i][2] = Append(@, pid)] :
                i \in {x \in 1..n : TotalPlans(sh) < MaxPlans}, pid \in PlanIDs}
        \cup UNION {{[sh EXCEPT ![i][2] = RemoveAt(@, j)] : j \in 1..Len(sh[i][2])} :
                        i \in 1..n}
        \cup UNION {{[sh EXCEPT ![i][2] = SwapAt(@, j)] : j \in 1..(Len(sh[i][2]) - 1)} :
                        i \in 1..n}

\* The documents the upstream may serve after the one of u: the shape takes
\* one step, the field values are revised, or both.
Edits(u) ==
    {e \in [shape : ShapeEdits(u.shape) \cup {u.shape}, rev : Revisions] :
        e.shape # u.shape \/ e.rev # u.rev}

\* The upstream broker starts serving another catalog document; the calls of
\* the last invocation were made for the document before it.
ChangeCatalog ==
    /\ upstream.edits < MaxEdits
    /\ \E u \in Edits(upstream) :
            upstream' = [shape |-> u.shape, rev |-> u.rev, edits |-> upstream.edits + 1]
    /\ last' = [last EXCEPT !.current = FALSE, !.calls = <<>>]
    /\ UNCHANGED <<brokers, secrets, offerings, plans, requests, inflight, listed, fake>>

NewBroker(name, namespace, secretName) ==
    [name |-> name, namespace |-> namespace, generation |-> 1,
     spec |-> [credentials |-> [name |-> secretName]],
     status |-> [observedGeneration |-> 0, credentialsObservedVersion |-> 0,
                 conditions |-> {}]]

NoInvocation ==
    [broker |-> Nil, result |-> Result(0, NoError), steps |-> <<>>, fetched |-> FALSE,
     created |-> 0, updated |-> 0, repeat |-> FALSE, calls |-> <<>>, current |-> FALSE]

NoRequests == [secret |-> <<Nil, Nil>>, listed |-> FALSE, names |-> {}, current |-> FALSE]

\* No CreateOrPatch call is between its read and its write.
NoUpsert == [pc |-> "idle"]

\* ListPlans has not been called.
NoListing == [called |-> FALSE, resources |-> <<>>, err |-> NoError]

\* A sync.RWMutex: w is the goroutine that called Lock and excludes the
\* other writers and the new readers, locked whether it holds the lock (the
\* readers it found have left), readers the goroutines that hold a read lock.
NewMutex == [w |-> Nil, locked |-> FALSE, readers |-> {}]

\* The goroutines that call the fake.
Threads == {"t1", "t2"}

\* A new(CFServicePlanRepository) that no goroutine has called: pc is where
\* each goroutine is in the call it makes, calls how many it has made, ret
\* what its last call returned.
NewFake ==
    [listPlansMutex |-> NewMutex,
     invocationsMutex |-> NewMutex,
     listPlansArgsForCall |-> <<>>,
     listPlansReturns |-> "zero",
     invocations |-> <<>>,
     pc |-> [t \in Threads |-> [op |-> "idle", at |-> 0, arg |-> Nil, local |-> Nil]],
     calls |-> [t \in Threads |-> 0],
     ret |-> [t \in Threads |-> Nil]]

(***************************************************************************)
(* Spec: one broker whose credentials secret comes, changes and goes,      *)
(* against an upstream that serves one document with at most one service.  *)
(***************************************************************************)
Init ==
    /\ brokers = ("b1" :> NewBroker("b1", "ns1", "sec1"))
    /\ secrets = <<>>
    /\ upstream \in {u \in [shape : CatalogShapes, rev : Revisions, edits : {0}] :
                        Len(u.shape) <= 1}
    /\ offerings = <<>>
    /\ plans = <<>>
    /\ last = NoInvocation
    /\ requests = NoRequests
    /\ inflight = NoUpsert
    /\ listed = NoListing
    /\ fake = NewFake

Next ==
    \/ ReconcileSecretUnavailable
    \/ ReconcileWithSecret
    \/ \E data \in SecretPayloads : PutSecret(<<"ns1", "sec1">>, data)
    \/ DeleteSecret(<<"ns1", "sec1">>)
    \/ UpdateBroker("b1")

Spec == Init /\ [][Next]_vars

(***************************************************************************)
(* SpecWalk: one broker with valid credentials, against an upstream that   *)
(* starts with any canonical catalog document and changes it.              *)
(***************************************************************************)
InitWalk ==
    /\ brokers = ("b1" :> NewBroker("b1", "ns1", "sec1"))
    /\ secrets = (<<"ns1", "sec1">> :> [resourceVersion |-> 1, data |-> ValidCredentials])
    /\ upstream \in [shape : CanonicalShapes, rev : {"v1"}, edits : {0}]
    /\ offerings = <<>>
    /\ plans = <<>>
    /\ last = NoInvocation
    /\ requests = NoRequests
    /\ inflight = NoUpsert
    /\ listed = NoListing
    /\ fake = NewFake

NextWalk ==
    \/ ReconcileWithSecret
    \/ ChangeCatalog

SpecWalk == InitWalk /\ [][NextWalk]_vars

(***************************************************************************)
(* Vocabulary of the properties.                                           *)
(***************************************************************************)
Invoked == last.broker # Nil
LastStep == last.steps[Len(last.steps)]
StepsOf(call) == {i \in 1..Len(last.steps) : last.steps[i][1] = call}
Answered(call, answer) == \E i \in 1..Len(last.steps) : last.steps[i] = <<call, answer>>
NoWrite == last.created = 0 /\ last.updated = 0
ReadyConditions(b) == {c \in brokers[b].status.conditions : c.type = "Ready"}
ReadyCondition == CHOOSE c \in ReadyConditions(last.broker) : TRUE
NotReady(reason) ==
    /\ Cardinality(ReadyConditions(last.broker)) = 1
    /\ ReadyCondition.status = "False"
    /\ ReadyCondition.reason = reason
StepRank(call) ==
    CASE call = "Get" -> 1
      [] call = "validateCredentials" -> 2
      [] call = "GetCatalog" -> 3
      [] call = "CreateOrPatch" -> 4
      [] OTHER -> 5

\* C2: every invocation, whichever way it ends, sets the broker's Ready
\* condition exactly once, and does so last, after every other step.
C2_ConditionSetOnceOnExit ==
    Invoked =>
        /\ Cardinality(StepsOf("SetStatusCondition")) = 1
        /\ LastStep[1] = "SetStatusCondition"
        /\ Cardinality(ReadyConditions(last.broker)) = 1
        /\ ReadyCondition.status = LastStep[2]

\* An invocation that returned early, on an absent secret.
C2_Witness ==
    /\ Invoked
    /\ last.steps = <<<<"Get", "NotFound">>, <<"SetStatusCondition", "False">>>>

\* C3: the steps run in the order secret read, validation, catalog fetch,
\* upserts; the first step that fails is the last one before the exit; and a
\* secret that fails validation ends the invocation not ready with reason
\* SecretInvalid, the error returned, no requeue delay, no catalog fetch and
\* no upsert.
C3_SequentialShortCircuit ==
    Invoked =>
        /\ last.steps[1][1] = "Get"
        /\ \A i \in 1..(Len(last.steps) - 1) :
            LET this == StepRank(last.steps[i][1])
                next == StepRank(last.steps[i + 1][1])
            IN  /\ next = this + 1 \/ next = 5 \/ (this = 4 /\ next = 4)
                /\ last.steps[i][2] # "ok" => next = 5
                /\ (next = 5 /\ this < 3) => last.steps[i][2] # "ok"
        /\ Answered("validateCredentials", "error") =>
            /\ NotReady("SecretInvalid")
            /\ last.result.err # NoError
            /\ last.result.err[1] \in {"invalid credentials secret",
                                       "broker credentials secret does not specify"}
            /\ last.result.requeueAfter = 0
            /\ StepsOf("GetCatalog") = {}
            /\ StepsOf("CreateOrPatch") = {}
            /\ NoWrite

\* The secret lacks the password and the invocation stopped at validation.
C3_Witness ==
    /\ Invoked
    /\ Answered("validateCredentials", "error")
    /\ SecretKeyOf(last.broker) \in DOMAIN secrets
    /\ secrets[SecretKeyOf(last.broker)].data[CredentialsSecretKey]
            = JsonObject({UsernameCredentialsKey})

\* C4: an absent secret ends the invocation with no error and a requeue after
\* 2 seconds, not ready with reason CredentialsSecretNotAvailable, and nothing
\* validated, fetched or upserted; any other failure of the secret read is
\* returned as the error, with no requeue delay and the same reason.
C4_SecretUnavailable ==
    /\ (Invoked /\ Answered("Get", "NotFound")) =>
        /\ last.result = Result(2, NoError)
        /\ NotReady("CredentialsSecretNotAvailable")
        /\ Len(last.steps) = 2
        /\ NoWrite
    /\ (Invoked /\ Answered("Get", "InternalError")) =>
        /\ last.result.err = Error("Get", "InternalError")
        /\ last.result.requeueAfter = 0
        /\ NotReady("CredentialsSecretNotAvailable")
        /\ Len(last.steps) = 2
        /\ NoWrite

\* The secret is absent and the invocation found it so, after an earlier
\* invocation had stored objects.
C4_Witness ==
    /\ Invoked
    /\ Answered("Get", "NotFound")
    /\ SecretKeyOf(last.broker) \notin DOMAIN secrets
    /\ offerings # <<>>

\* The invocation made every call, and every call succeeded.
Completed ==
    /\ Answered("Get", "ok")
    /\ Answered("validateCredentials", "ok")
    /\ Answered("GetCatalog", "ok")
    /\ Cardinality(StepsOf("CreateOrPatch")) = NumUpserts(Served(upstream))
    /\ ~Answered("CreateOrPatch", "error")

\* C8: after any sequence of invocations the Ready condition is True exactly
\* when the last one read the secret, validated it, fetched the catalog and
\* completed every upsert, and False otherwise.
C8_ConditionReflectsLastInvocation ==
    Invoked =>
        /\ Cardinality(ReadyConditions(last.broker)) = 1
        /\ ReadyCondition.status \in {"True", "False"}
        /\ ReadyCondition.status = "True" <=> Completed

\* The last invocation upserted some entries and then failed, after an earlier
\* invocation had completed the walk (the last entry's object is stored).
C8_Witness ==
    /\ Invoked
    /\ Answered("CreateOrPatch", "ok")
    /\ Answered("CreateOrPatch", "error")
    /\ ReadyCondition.status = "False"
    /\ Cardinality(DOMAIN offerings) + Cardinality(DOMAIN plans)
            = NumUpserts(Served(upstream))

\* C9: a failed catalog fetch ends the invocation not ready with reason
\* GetCatalogFailed, returns the fetch error with no requeue delay, and makes
\* no upsert: the stored offerings and plans are those of before.
C9_CatalogFetchFailure ==
    [][(last'.broker # Nil
            /\ \E i \in 1..Len(last'.steps) : last'.steps[i] = <<"GetCatalog", "error">>)
        => /\ last'.result = Result(0, Error("GetCatalog", "failed"))
           /\ \A c \in brokers'[last'.broker].status.conditions :
                c.type = "Ready" => c.status = "False" /\ c.reason = "GetCatalogFailed"
           /\ \E c \in brokers'[last'.broker].status.conditions : c.type = "Ready"
           /\ \A i \in 1..Len(last'.steps) : last'.steps[i][1] # "CreateOrPatch"
           /\ last'.created = 0 /\ last'.updated = 0
           /\ offerings' = offerings
           /\ plans' = plans]_vars

\* The catalog fetch failed while objects of an earlier invocation are stored.
C9_Witness ==
    /\ Invoked
    /\ Answered("GetCatalog", "error")
    /\ plans # <<>>

(***************************************************************************)
(* Properties of the catalog walk, checked under SpecWalk.                 *)
(***************************************************************************)
Succeeded == last.result = Result(0, NoError)
\* The invocation that ends this step succeeds and repeats a successful one
\* against the catalog document that one saw.
SecondRun == last'.current /\ last'.repeat /\ last'.result = Result(0, NoError)

Injective(seq) == \A i, j \in 1..Len(seq) : seq[i] = seq[j] => i = j
NoRepeatedIDs(sh) == Injective(ShapeServiceIDs(sh)) /\ Injective(ShapePlanIDs(sh))

\* C1 as stated: a second successful run against the unchanged catalog leaves
\* the offering and plan objects as they were, creates none and patches none.
C1_Original ==
    [][SecondRun =>
        /\ offerings' = offerings /\ plans' = plans
        /\ last'.created = 0 /\ last'.updated = 0]_vars

\* C1, amended: a second successful run against the unchanged catalog leaves
\* the offering and plan objects (names, labels, specs) as they were and
\* creates none; it patches none when no service ID and no plan ID occurs
\* twice in the catalog.
C1_Idempotence ==
    [][SecondRun =>
        /\ offerings' = offerings /\ plans' = plans
        /\ last'.created = 0
        /\ NoRepeatedIDs(upstream'.shape) => last'.updated = 0]_vars

\* A second successful run against an unchanged catalog of two services and
\* two plans, all stored.
C1_Witness ==
    /\ last.current /\ last.repeat /\ Succeeded
    /\ NumUpserts(Served(upstream)) = 4
    /\ NoRepeatedIDs(upstream.shape)
    /\ Cardinality(DOMAIN offerings) = 2 /\ Cardinality(DOMAIN plans) = 2

\* The entries of a catalog document in walk order, each with the kind, key,
\* labels and spec its object is to have: a service, then its plans.
PlanEntries(broker, offeringName, catalogPlans) ==
    [j \in 1..Len(catalogPlans) |->
        [kind |-> "CFServicePlan",
         key |-> <<broker.namespace, NamespacedUUID(broker.name, catalogPlans[j].ID)>>,
         labels |-> (RelServiceBrokerLabel :> broker.name)
                    @@ (RelServiceOfferingLabel :> offeringName),
         spec |-> toSpecServicePlan(catalogPlans[j])]]

RECURSIVE ServiceEntries(_, _)
ServiceEntries(broker, catalogServices) ==
    IF catalogServices = <<>> THEN <<>>
    ELSE LET service == Head(catalogServices)
             offeringName == NamespacedUUID(broker.name, service.ID)
         IN  <<[kind |-> "CFServiceOffering",
                key |-> <<broker.namespace, offeringName>>,
                labels |-> (RelServiceBrokerLabel :> broker.name),
                spec |-> toSpecServiceOffering(service)]>>
             \o PlanEntries(broker, offeringName, service.Plans)
             \o ServiceEntries(broker, Tail(catalogServices))

WalkEntries == ServiceEntries(brokers[last.broker], Served(upstream).Services)
StoreOf(kind, os, ps) == IF kind = "CFServiceOffering" THEN os ELSE ps
Kinds == {"CFServiceOffering", "CFServicePlan"}
\* The keys of the given kind among the first n entries of the walk.
KeysBefore(entries, n, kind) == {entries[j].key : j \in {i \in 1..n : entries[i].kind = kind}}

\* C5: when the k-th upsert of a walk fails, every entry before it is stored
\* with its new state after the invocation (the state of the last entry of
\* its key among them), no other object is written, no call follows the
\* failed one, and the invocation returns an error and leaves the broker not
\* ready.
C5_PartialFailureRetention ==
    [][(last'.current /\ <<"CreateOrPatch", "error">> \in
                            {last'.steps[i] : i \in 1..Len(last'.steps)}) =>
        LET entries == ServiceEntries(brokers[last'.broker], Served(upstream').Services)
            k == Cardinality({i \in 1..Len(last'.steps) : last'.steps[i][1] = "CreateOrPatch"})
        IN  /\ k \in 1..Len(entries)
            /\ last'.steps[3 + k] = <<"CreateOrPatch", "error">>
            /\ last'.steps[4 + k][1] = "SetStatusCondition"
            /\ \A j \in 1..(k - 1) :
                LET e == entries[j]
                    store == StoreOf(e.kind, offerings', plans')
                IN  /\ last'.steps[3 + j] = <<"CreateOrPatch", "ok">>
                    /\ e.key \in DOMAIN store
                    /\ (\A i \in (j + 1)..(k - 1) :
                            entries[i].kind = e.kind => entries[i].key # e.key)
                        => store[e.key] = [labels |-> e.labels, annotations |-> <<>>, spec |-> e.spec]
            /\ \A kind \in Kinds :
                LET before == StoreOf(kind, offerings, plans)
                    after == StoreOf(kind, offerings', plans')
                IN  /\ DOMAIN after = DOMAIN before \cup KeysBefore(entries, k - 1, kind)
                    /\ \A key \in DOMAIN before \ KeysBefore(entries, k - 1, kind) :
                            after[key] = before[key]
            /\ last'.result.requeueAfter = 0
            /\ last'.result.err # NoError
            /\ last'.result.err[1] = "failed to reconcile catalog"
            /\ \A c \in brokers'[last'.broker].status.conditions :
                    c.type = "Ready" => c.status = "False"]_vars

\* The third upsert of a walk failed, the two before it created an offering
\* and a plan that were not stored, and both are stored now.
C5_Witness ==
    /\ last.current
    /\ Len(last.steps) = 7
    /\ last.steps[6] = <<"CreateOrPatch", "error">>
    /\ last.created = 2
    /\ Cardinality(DOMAIN offerings) = 1 /\ Cardinality(DOMAIN plans) = 1
    /\ ReadyCondition.status = "False"

\* The rearrangements of a sequence, and the shapes that list the services of
\* sh, and the plans of each service, in another order.
Bijections(n) == {f \in [1..n -> 1..n] : \A i, j \in 1..n : f[i] = f[j] => i = j}
Rearrangements(seq) == {[i \in 1..Len(seq) |-> seq[f[i]]] : f \in Bijections(Len(seq))}
Reordered(sh) ==
    {t \in CatalogShapes :
        /\ Len(t) = Len(sh)
        /\ \E f \in Bijections(Len(sh)) :
            \A i \in 1..Len(sh) :
                t[i][1] = sh[f[i]][1] /\ t[i][2] \in Rearrangements(sh[f[i]][2])}

\* The invocation that ends this step completes the walk of the catalog.
WalkCompletes == last'.current /\ last'.fetched /\ last'.result = Result(0, NoError)
\* The stores a completed walk of the document of shape sh leaves, started
\* from the stores before this step.
WalkOf(sh) ==
    LET w == reconcileCatalog(StartWalk(offerings, plans), brokers[last'.broker],
                              Catalog(sh, upstream'.rev), NoFailure)
    IN  [offerings |-> w.offerings, plans |-> w.plans]
NamesOf(broker, ids) == {<<broker.namespace, NamespacedUUID(broker.name, id)>> : id \in ids}
Range(seq) == {seq[i] : i \in 1..Len(seq)}

\* C7 as stated: object names depend only on the broker name and the catalog
\* ID, and successful reconciliations against catalogs that differ only in
\* the order of services and plans end with the same objects.
C7_Original ==
    [][WalkCompletes =>
        LET broker == brokers[last'.broker]
        IN  /\ DOMAIN offerings' = DOMAIN offerings
                    \cup NamesOf(broker, Range(ShapeServiceIDs(upstream'.shape)))
            /\ DOMAIN plans' = DOMAIN plans
                    \cup NamesOf(broker, Range(ShapePlanIDs(upstream'.shape)))
            /\ \A t \in Reordered(upstream'.shape) :
                    WalkOf(t) = [offerings |-> offerings', plans |-> plans']]_vars

\* C7, amended: object names depend only on the broker name and the catalog
\* ID; successful reconciliations against catalogs that differ only in the
\* order of services and plans end with the same object names, and with the
\* same objects when no service ID and no plan ID occurs twice in the catalog.
C7_IdentityOrderIndependence ==
    [][WalkCompletes =>
        LET broker == brokers[last'.broker]
        IN  /\ DOMAIN offerings' = DOMAIN offerings
                    \cup NamesOf(broker, Range(ShapeServiceIDs(upstream'.shape)))
            /\ DOMAIN plans' = DOMAIN plans
                    \cup NamesOf(broker, Range(ShapePlanIDs(upstream'.shape)))
            /\ \A t \in Reordered(upstream'.shape) :
                /\ DOMAIN WalkOf(t).offerings = DOMAIN offerings'
                /\ DOMAIN WalkOf(t).plans = DOMAIN plans'
                /\ NoRepeatedIDs(upstream'.shape)
                    => WalkOf(t) = [offerings |-> offerings', plans |-> plans']]_vars

\* A successful run against a catalog of two services, one with two plans,
\* that can be listed in four orders.
C7_Witness ==
    /\ last.current /\ last.fetched /\ Succeeded
    /\ NoRepeatedIDs(upstream.shape)
    /\ Cardinality(Reordered(upstream.shape)) = 4
    /\ Cardinality(DOMAIN plans) = 2

\* The keys of the objects a walk of the served catalog upserts.
ServedKeys(kind) ==
    LET broker == brokers["b1"]
    IN  IF kind = "CFServiceOffering"
        THEN NamesOf(broker, Range(ShapeServiceIDs(upstream.shape)))
        ELSE NamesOf(broker, Range(ShapePlanIDs(upstream.shape)))

\* C10: no step removes an offering or a plan object, and an object whose
\* catalog ID the upstream no longer lists keeps the state it has.
C10_NeverDeletes ==
    [][\A kind \in Kinds :
        LET before == StoreOf(kind, offerings, plans)
            after == StoreOf(kind, offerings', plans')
        IN  /\ DOMAIN before \subseteq DOMAIN after
            /\ \A key \in DOMAIN before \ ServedKeys(kind)' :
                    after[key] = before[key]]_vars

\* A successful run against a catalog that no longer lists a stored offering
\* and a stored plan.
C10_Witness ==
    /\ last.current /\ last.fetched /\ Succeeded
    /\ DOMAIN offerings \ ServedKeys("CFServiceOffering") # {}
    /\ DOMAIN plans \ ServedKeys("CFServicePlan") # {}
    /\ ServedKeys("CFServiceOffering") # {}

(***************************************************************************)
(* The secret watch.  secretToServiceBroker maps an event on the secret o  *)
(* to reconcile requests: it lists the brokers of o's namespace whose      *)
(* indexed credentials secret name is o's name; listFails: the list call   *)
(* returns an error.  requests keeps the event's secret, whether the list  *)
(* call succeeded, the requests returned, and whether the brokers are      *)
(* still as the call saw them (current).                                   *)
(***************************************************************************)
Namespaces == {"ns1", "ns2"}
SecretNames == {"sec1", "sec2"}
BrokerNames == {"b1", "b2", "b3"}

\* The value a broker is indexed under.
IndexServiceBrokerCredentialsSecretName(broker) == broker.spec.credentials.name

\* client.List with InNamespace and MatchingFields.
List(namespace, value, fails) ==
    IF fails THEN [items |-> {}, err |-> Error("List", "InternalError")]
    ELSE [items |-> {brokers[b] : b \in {x \in DOMAIN brokers :
                        /\ brokers[x].namespace = namespace
                        /\ IndexServiceBrokerCredentialsSecretName(brokers[x]) = value}},
          err |-> NoError]

Request(namespace, name) == [namespace |-> namespace, name |-> name]

secretToServiceBroker(o, listFails) ==
    LET serviceBrokers == List(o[1], o[2], listFails)
    IN  IF serviceBrokers.err # NoError THEN {}
        ELSE {Request(sb.namespace, sb.name) : sb \in serviceBrokers.items}

\* The watch delivers an event on a secret (created, updated, deleted or
\* resynchronised) and the controller maps it to requests.
SecretEvent ==
    \E o \in Namespaces \X SecretNames, listFails \in BOOLEAN :
        /\ requests' = [secret |-> o, listed |-> ~listFails,
                        names |-> secretToServiceBroker(o, listFails), current |-> TRUE]
        /\ UNCHANGED <<brokers, secrets, upstream, offerings, plans, last, inflight, listed, fake>>

\* An operator points a broker at another credentials secret.
UpdateBrokerCredentials ==
    \E b \in DOMAIN brokers, secretName \in SecretNames :
        /\ brokers[b].generation < MaxGeneration
        /\ brokers[b].spec.credentials.name # secretName
        /\ brokers' = [brokers EXCEPT ![b].generation = @ + 1,
                                      ![b].spec.credentials.name = secretName]
        /\ requests' = [requests EXCEPT !.current = FALSE]
        /\ UNCHANGED <<secrets, upstream, offerings, plans, last, inflight, listed, fake>>

(***************************************************************************)
(* SpecMap: three brokers, each in one of two namespaces and referencing   *)
(* one of two secret names, and the events of the secret watch.            *)
(***************************************************************************)
InitMap ==
    /\ brokers \in {[b \in BrokerNames |-> NewBroker(b, place[b][1], place[b][2])] :
                        place \in [BrokerNames -> Namespaces \X SecretNames]}
    /\ secrets = <<>>
    /\ upstream = [shape |-> <<>>, rev |-> "v1", edits |-> 0]
    /\ offerings = <<>>
    /\ plans = <<>>
    /\ last = NoInvocation
    /\ requests = NoRequests
    /\ inflight = NoUpsert
    /\ listed = NoListing
    /\ fake = NewFake

NextMap ==
    \/ SecretEvent
    \/ UpdateBrokerCredentials

SpecMap == InitMap /\ [][NextMap]_vars

\* The brokers that depend on the secret o.
Dependents(o) ==
    {b \in DOMAIN brokers :
        brokers[b].namespace = o[1] /\ brokers[b].spec.credentials.name = o[2]}

\* C6: an event on a secret yields a reconcile request for every broker of
\* the secret's namespace whose credentials reference names the secret, and
\* for no other broker.
C6_SecretRotationTrigger ==
    requests.current =>
        requests.names = {Request(brokers[b].namespace, b) : b \in Dependents(requests.secret)}

(***************************************************************************)
(* CreateOrPatch with another actor writing between its read and its       *)
(* write.  The call reads the object (Get), applies the mutate function,   *)
(* and then creates the object if the read found none, or sends a JSON     *)
(* merge patch of what the mutation changed (client.MergeFrom) if it found *)
(* one; the patch carries no resource version.  BeginUpsert runs an        *)
(* invocation up to the read of the offering of a catalog of one service,  *)
(* FinishUpsert runs it from there to its return.                          *)
(***************************************************************************)
\* The paths of an offering's spec that a merge patch sets one by one.
SpecPaths ==
    {<<"Name">>, <<"Description">>, <<"Tags">>, <<"Requires">>, <<"DocumentationURL">>,
     <<"BrokerCatalog", "Id">>, <<"BrokerCatalog", "Features">>,
     <<"BrokerCatalog", "Metadata">>}
At(spec, path) == IF Len(path) = 1 THEN spec[path[1]] ELSE spec[path[1]][path[2]]

\* client.MergeFrom(before): the labels and spec paths in which after differs.
MergeFrom(before, after) ==
    [labels |-> {k \in DOMAIN after.labels :
                    k \notin DOMAIN before.labels \/ before.labels[k] # after.labels[k]},
     paths |-> {path \in SpecPaths : At(before.spec, path) # At(after.spec, path)}]

\* The stored object current after the API server applied the patch.
Patched(current, after, patch) ==
    [labels |-> [k \in DOMAIN current.labels \cup patch.labels |->
                    IF k \in patch.labels THEN after.labels[k] ELSE current.labels[k]],
     annotations |-> current.annotations,
     spec |-> [f \in DOMAIN current.spec |->
                IF f = "BrokerCatalog"
                THEN [g \in DOMAIN current.spec[f] |->
                        IF <<f, g>> \in patch.paths THEN after.spec[f][g]
                        ELSE current.spec[f][g]]
                ELSE IF <<f>> \in patch.paths THEN after.spec[f] ELSE current.spec[f]]]

\* What another actor writes: it creates the object, rewrites its
\* description, or labels it.
TheirObject ==
    [labels |-> ("owner" :> "other"),
     annotations |-> <<>>,
     spec |-> [toSpecServiceOffering(CatalogService("s1", "v1", <<>>))
                    EXCEPT !.Description = <<"service-description", "theirs">>]]
TheirEdits(obj) ==
    {[obj EXCEPT !.spec.Description = <<"service-description", "theirs">>],
     [obj EXCEPT !.labels = ("owner" :> "other") @@ @]} \ {obj}

OfferingKey(b, id) == <<brokers[b].namespace, NamespacedUUID(brokers[b].name, id)>>

BeginUpsert ==
    /\ inflight.pc # "read"
    /\ \E b \in DOMAIN brokers :
        /\ SecretKeyOf(b) \in DOMAIN secrets
        /\ validateCredentials(secrets[SecretKeyOf(b)]) = NoError
        /\ NumUpserts(Served(upstream)) = 1
        /\ LET catalogService == Served(upstream).Services[1]
               key == OfferingKey(b, catalogService.ID)
           IN  inflight' =
                [pc |-> "read",
                 broker |-> [brokers[b] EXCEPT
                                !.status.observedGeneration = brokers[b].generation,
                                !.status.credentialsObservedVersion =
                                    secrets[SecretKeyOf(b)].resourceVersion],
                 service |-> catalogService,
                 key |-> key,
                 found |-> key \in DOMAIN offerings,
                 read |-> Existing(offerings, key),
                 interfered |-> FALSE,
                 theirs |-> NewObject,
                 result |-> "unchanged",
                 err |-> NoError]
    /\ UNCHANGED <<brokers, secrets, upstream, offerings, plans, last, requests, listed, fake>>

OtherActorWrites ==
    /\ \E b \in DOMAIN brokers :
        LET key == OfferingKey(b, "s1")
        IN  \E obj \in (IF key \in DOMAIN offerings THEN TheirEdits(offerings[key])
                        ELSE {TheirObject}) :
                /\ offerings' = (key :> obj) @@ offerings
                /\ inflight' =
                    IF inflight.pc = "idle" THEN inflight
                    ELSE IF inflight.pc = "done" THEN NoUpsert
                    ELSE IF inflight.key = key
                    THEN [inflight EXCEPT !.interfered = TRUE, !.theirs = obj]
                    ELSE inflight
    /\ UNCHANGED <<brokers, secrets, upstream, plans, last, requests, listed, fake>>

FinishUpsert ==
    /\ inflight.pc = "read"
    /\ LET key == inflight.key
           cfServiceBroker == inflight.broker
           mutated == [labels |-> (RelServiceBrokerLabel :> cfServiceBroker.name)
                                    @@ inflight.read.labels,
                       annotations |-> inflight.read.annotations,
                       spec |-> toSpecServiceOffering(inflight.service)]
           r == IF ~inflight.found
                THEN IF key \in DOMAIN offerings
                     THEN [store |-> offerings, result |-> "unchanged",
                           err |-> Error("CreateOrPatch", "AlreadyExists")]
                     ELSE [store |-> (key :> mutated) @@ offerings, result |-> "created",
                           err |-> NoError]
                ELSE IF mutated = inflight.read
                THEN [store |-> offerings, result |-> "unchanged", err |-> NoError]
                ELSE [store |-> [offerings EXCEPT ![key] =
                                    Patched(@, mutated, MergeFrom(inflight.read, mutated))],
                      result |-> "updated", err |-> NoError]
           w0 == StartWalk(r.store, plans)
           w == [w0 EXCEPT
                    !.calls = <<[kind |-> "CFServiceOffering", key |-> key,
                                 id |-> inflight.service.ID]>>,
                    !.writes = IF r.result = "unchanged" THEN <<>>
                               ELSE <<[op |-> r.result, kind |-> "CFServiceOffering",
                                       key |-> key]>>,
                    !.err = IF r.err = NoError THEN NoError
                            ELSE Error("failed to reconcile service offering", r.err[2])]
           steps == <<<<"Get", "ok">>, <<"validateCredentials", "ok">>, <<"GetCatalog", "ok">>,
                      <<"CreateOrPatch", IF r.err = NoError THEN "ok" ELSE "error">>>>
           readyConditionBuilder == NewReadyConditionBuilder(cfServiceBroker)
       IN  /\ Returned(IF w.err # NoError
                       THEN Return(cfServiceBroker, readyConditionBuilder, w.err,
                                   Result(0, Error("failed to reconcile catalog", w.err[2])),
                                   steps, TRUE, w)
                       ELSE Return(cfServiceBroker, Ready(readyConditionBuilder), NoError,
                                   Result(0, NoError), steps, TRUE, w))
           /\ inflight' = [inflight EXCEPT !.pc = "done", !.result = r.result, !.err = r.err]
    /\ UNCHANGED <<secrets, upstream, requests, listed, fake>>

(***************************************************************************)
(* SpecRace: one broker with valid credentials and a catalog of one        *)
(* service without plans, whose offering is absent or stored by an earlier *)
(* invocation, and another actor that writes the offering.                 *)
(***************************************************************************)
InitRace ==
    /\ brokers = ("b1" :> NewBroker("b1", "ns1", "sec1"))
    /\ secrets = (<<"ns1", "sec1">> :> [resourceVersion |-> 1, data |-> ValidCredentials])
    /\ upstream \in [shape : {<<<<"s1", <<>>>>>>}, rev : Revisions, edits : {0}]
    /\ offerings \in {<<>>} \cup
            {(OfferingKey("b1", "s1") :>
                [labels |-> (RelServiceBrokerLabel :> "b1"),
                 annotations |-> <<>>,
                 spec |-> toSpecServiceOffering(CatalogService("s1", rev, <<>>))]) :
             rev \in Revisions}
    /\ plans = <<>>
    /\ last = NoInvocation
    /\ requests = NoRequests
    /\ inflight = NoUpsert
    /\ listed = NoListing
    /\ fake = NewFake

NextRace ==
    \/ BeginUpsert
    \/ OtherActorWrites
    \/ FinishUpsert

SpecRace == InitRace /\ [][NextRace]_vars

\* C11: when another actor wrote the object between the upsert's read and its
\* write, the upsert fails with a conflict error and the object is as the
\* other actor wrote it.
C11_UpsertConflictDetection ==
    (inflight.pc = "done" /\ inflight.interfered) =>
        /\ inflight.err # NoError
        /\ inflight.err[2] \in {"Conflict", "AlreadyExists"}
        /\ offerings[inflight.key] = inflight.theirs

(***************************************************************************)
(* SpecTwo: two brokers with valid credentials, in one namespace or in     *)
(* two, reconciled in any order against one upstream of at most one        *)
(* service, which advertises the same service and plan IDs to both.        *)
(***************************************************************************)
InitTwo ==
    /\ \E ns \in Namespaces :
        brokers = ("b1" :> NewBroker("b1", "ns1", "sec1"))
                    @@ ("b2" :> NewBroker("b2", ns, "sec1"))
    /\ secrets = [key \in Namespaces \X {"sec1"} |->
                    [resourceVersion |-> 1, data |-> ValidCredentials]]
    /\ upstream \in [shape : {sh \in CanonicalShapes : Len(sh) <= 1}, rev : {"v1"},
                       edits : {0}]
    /\ offerings = <<>>
    /\ plans = <<>>
    /\ last = NoInvocation
    /\ requests = NoRequests
    /\ inflight = NoUpsert
    /\ listed = NoListing
    /\ fake = NewFake

NextTwo ==
    \/ ReconcileWithSecret

SpecTwo == InitTwo /\ [][NextTwo]_vars

\* A catalog that lists every service ID and, under each, every plan ID.
EveryID == [i \in 1..2 |-> <<<<"s1", "s2">>[i], <<"p1", "p2">>>>]

\* The keys broker b upserts for some catalog: those of its walk of EveryID.
KeysOf(b) ==
    LET w == reconcileCatalog(StartWalk(<<>>, <<>>), brokers[b], Catalog(EveryID, "v1"),
                              NoFailure)
    IN  {<<w.calls[i].kind, w.calls[i].key>> : i \in 1..Len(w.calls)}

\* The objects a step creates or changes.
WrittenKeys ==
    {<<"CFServiceOffering", key>> : key \in
        {k \in DOMAIN offerings' : k \notin DOMAIN offerings \/ offerings'[k] # offerings[k]}}
    \cup {<<"CFServicePlan", key>> : key \in
        {k \in DOMAIN plans' : k \notin DOMAIN plans \/ plans'[k] # plans[k]}}

\* C12: no object upserted or written by an invocation for one broker is an
\* object that an invocation for another broker upserts, whatever catalog
\* that one sees.
C12_DistinctBrokersDisjointKeys ==
    [][\A b \in DOMAIN brokers \ {last'.broker} :
            /\ WrittenKeys \cap KeysOf(b) = {}
            /\ \A i \in 1..Len(last'.calls) :
                    <<last'.calls[i].kind, last'.calls[i].key>> \notin KeysOf(b)]_vars

\* Both brokers, in one namespace, have upserted the offering of service s1.
C12_Witness ==
    /\ brokers["b1"].namespace = brokers["b2"].namespace
    /\ \A b \in DOMAIN brokers : OfferingKey(b, "s1") \in DOMAIN offerings
    /\ last.current /\ last.created > 0

(***************************************************************************)
(* Claims about which failures the reconciler itself schedules again.      *)
(***************************************************************************)
\* Some call of the last invocation failed.
Failed ==
    \E i \in 1..Len(last.steps) :
        last.steps[i][1] # "SetStatusCondition" /\ last.steps[i][2] # "ok"

\* C13 as stated: an absent secret and a conflict on an upsert both end with
\* a fixed requeue delay; no other failure does.
C13_Original ==
    Invoked =>
        /\ Answered("Get", "NotFound") => last.result.requeueAfter > 0
        /\ (Answered("CreateOrPatch", "error") /\ last.result.err[2] = "Conflict") =>
                last.result.requeueAfter > 0
        /\ (Failed /\ ~Answered("Get", "NotFound") /\ last.result.err[2] # "Conflict") =>
                last.result.requeueAfter = 0

\* C13: only the absent secret ends with the fixed requeue delay, and with no
\* error; every other failure, a conflict on an upsert included, is returned
\* as the error with no delay.
C13_RetryClassification ==
    Invoked =>
        /\ last.result.requeueAfter \in {0, RequeueAfterSeconds}
        /\ last.result.requeueAfter = RequeueAfterSeconds <=> Answered("Get", "NotFound")
        /\ Answered("Get", "NotFound") => last.result.err = NoError
        /\ (Failed /\ ~Answered("Get", "NotFound")) =>
                last.result.err # NoError /\ last.result.requeueAfter = 0
        /\ ~Failed => last.result = Result(0, NoError)

\* An upsert of the last invocation was refused with a conflict.
C13_Witness ==
    /\ Invoked
    /\ Answered("CreateOrPatch", "error")
    /\ last.result.err = Error("failed to reconcile catalog", "Conflict")

(***************************************************************************)
(* SpecLive: the controller re-invokes the reconciler.  A broker is on the *)
(* work queue from its creation until an invocation returns neither an     *)
(* error nor a requeue delay: the caller retries an error, and a requeue   *)
(* delay expires.  Retry is a re-invocation in which no collaborator call  *)
(* fails; the work queue runs it if the broker stays queued.  The upstream *)
(* serves one document throughout.                                         *)
(***************************************************************************)
Pending == ~Invoked \/ last.result # Result(0, NoError)

Retry ==
    /\ Pending
    /\ \E b \in DOMAIN brokers :
            \E out \in {ReconcileResource(b, FALSE, FALSE, NoFailure)} : Returned(out)
    /\ UNCHANGED <<secrets, upstream, requests, inflight, listed, fake>>

LiveShapes ==
    {<<<<"s1", <<"p1">>>>>>,
     <<<<"s1", <<"p1">>>>, <<"s2", <<>>>>>>,
     <<<<"s1", <<"p1">>>>, <<"s2", <<"p1">>>>>>}

InitLive ==
    /\ brokers = ("b1" :> NewBroker("b1", "ns1", "sec1"))
    /\ secrets = <<>>
    /\ upstream \in [shape : LiveShapes, rev : {"v1"}, edits : {0}]
    /\ offerings = <<>>
    /\ plans = <<>>
    /\ last = NoInvocation
    /\ requests = NoRequests
    /\ inflight = NoUpsert
    /\ listed = NoListing
    /\ fake = NewFake

NextLive ==
    \/ Retry
    \/ ReconcileSecretUnavailable
    \/ ReconcileWithSecret
    \/ \E data \in SecretPayloads : PutSecret(<<"ns1", "sec1">>, data)
    \/ DeleteSecret(<<"ns1", "sec1">>)

SpecLive == InitLive /\ [][NextLive]_vars /\ WF_vars(Retry)

SecretIsValid ==
    /\ SecretKeyOf("b1") \in DOMAIN secrets
    /\ validateCredentials(secrets[SecretKeyOf("b1")]) = NoError

\* Every service and every plan of the document the upstream serves has its
\* object, and the object's spec holds the values the document gives it.
AllCarried ==
    LET catalog == Served(upstream)
    IN  \A i \in 1..Len(catalog.Services) :
            LET service == catalog.Services[i]
                okey == OfferingKey("b1", service.ID)
            IN  /\ okey \in DOMAIN offerings
                /\ offerings[okey].spec = toSpecServiceOffering(service)
                /\ \A j \in 1..Len(service.Plans) :
                        LET pkey == OfferingKey("b1", service.Plans[j].ID)
                        IN  /\ pkey \in DOMAIN plans
                            /\ plans[pkey].spec = toSpecServicePlan(service.Plans[j])

Converged ==
    /\ \E c \in ReadyConditions("b1") : c.status = "True"
    /\ AllCarried

\* C14 as stated: from any state with valid credentials, unless the
\* credentials stop being valid, the broker gets Ready and every service and
\* plan of the catalog has an object with its values.
C14_Original == SecretIsValid ~> (~SecretIsValid \/ Converged)

\* C14: the same, for a catalog in which no service ID and no plan ID occurs
\* twice.
C14_EventualConsistency ==
    (SecretIsValid /\ NoRepeatedIDs(upstream.shape)) ~> (~SecretIsValid \/ Converged)

\* The broker converged on a catalog of two services after an invocation
\* that had failed in the walk left one of them without its object.
C14_Witness ==
    /\ Converged
    /\ Len(upstream.shape) = 2
    /\ NoRepeatedIDs(upstream.shape)
    /\ last.current /\ last.created > 0 /\ last.created < NumUpserts(Served(upstream))

(***************************************************************************)
(* SpecCreds: one broker whose credentials secret holds any of the         *)
(* payloads, the credentials key absent included, against an upstream of   *)
(* at most one service.                                                    *)
(***************************************************************************)
AllPayloads == {<<>>} \cup {(CredentialsSecretKey :> text) : text \in JsonTexts}

InitCreds ==
    /\ brokers = ("b1" :> NewBroker("b1", "ns1", "sec1"))
    /\ secrets \in {(<<"ns1", "sec1">> :> secret) :
                        secret \in [resourceVersion : 1..MaxVersion, data : AllPayloads]}
    /\ upstream \in [shape : {sh \in CanonicalShapes : Len(sh) <= 1}, rev : {"v1"},
                     edits : {0}]
    /\ offerings = <<>>
    /\ plans = <<>>
    /\ last = NoInvocation
    /\ requests = NoRequests
    /\ inflight = NoUpsert
    /\ listed = NoListing
    /\ fake = NewFake

NextCreds ==
    \/ ReconcileSecretUnavailable
    \/ ReconcileWithSecret
    \/ UpdateBroker("b1")

SpecCreds == InitCreds /\ [][NextCreds]_vars

\* The bytes under the credentials key of the broker's secret.
CredentialBytes == DataAt(secrets[SecretKeyOf("b1")].data, CredentialsSecretKey)
Validated(answer) ==
    \E i \in 1..Len(last'.steps) : last'.steps[i] = <<"validateCredentials", answer>>

\* C15: an invocation's validation succeeds exactly if the credentials key
\* holds a JSON object with both the username and the password; bytes that
\* are not JSON, and an absent key, fail as invalid credentials; an object
\* without the username fails naming the username, one with the username and
\* without the password fails naming the password; a failed validation
\* changes neither the secret nor the stores nor the observed version.
C15_CredentialValidationResult ==
    [][(last' # last /\ (Validated("ok") \/ Validated("error"))) =>
        /\ Validated("ok") <=>
                /\ CredentialBytes.kind = "object"
                /\ {UsernameCredentialsKey, PasswordCredentialsKey} \subseteq CredentialBytes.keys
        /\ CredentialBytes.kind \in {"empty", "malformed"} =>
                last'.result.err[1] = "invalid credentials secret"
        /\ (CredentialBytes.kind = "object"
                /\ UsernameCredentialsKey \notin CredentialBytes.keys) =>
                last'.result.err = Error("broker credentials secret does not specify",
                                         UsernameCredentialsKey)
        /\ (CredentialBytes.kind = "object"
                /\ UsernameCredentialsKey \in CredentialBytes.keys
                /\ PasswordCredentialsKey \notin CredentialBytes.keys) =>
                last'.result.err = Error("broker credentials secret does not specify",
                                         PasswordCredentialsKey)
        /\ Validated("error") =>
                /\ last'.result.err # NoError
                /\ secrets' = secrets /\ offerings' = offerings /\ plans' = plans
                /\ brokers'["b1"].status.credentialsObservedVersion =
                        brokers["b1"].status.credentialsObservedVersion
                /\ brokers'["b1"].spec = brokers["b1"].spec
                /\ brokers'["b1"].generation = brokers["b1"].generation]_vars

\* The secret holds an object with the username only, and the invocation
\* failed for the missing password.
C15_Witness ==
    /\ Invoked
    /\ CredentialBytes = JsonObject({UsernameCredentialsKey})
    /\ last.result.err = Error("broker credentials secret does not specify",
                               PasswordCredentialsKey)

(***************************************************************************)
(* Claims about what an invocation that ends Ready records.                *)
(***************************************************************************)
\* The step is an invocation: nobody else touched the secret or the broker's
\* generation, and the broker or the record of the last invocation changed.
InvocationStep ==
    /\ secrets' = secrets
    /\ \A b \in DOMAIN brokers : brokers'[b].generation = brokers[b].generation
    /\ last' # last \/ brokers' # brokers

ReachesReady ==
    /\ InvocationStep
    /\ last'.result = Result(0, NoError)
    /\ last'.steps[Len(last'.steps)] = <<"SetStatusCondition", "True">>

\* C16: an invocation that reaches Ready leaves the observed generation equal
\* to the broker's generation, the observed credentials version equal to the
\* resource version of the secret it fetched, and the one Ready condition
\* True.
C16_ReadyRecordsObserved ==
    [][ReachesReady =>
        LET cfServiceBroker == brokers'[last'.broker]
        IN  /\ cfServiceBroker.status.observedGeneration = cfServiceBroker.generation
            /\ cfServiceBroker.status.credentialsObservedVersion =
                    secrets[SecretKeyOf(last'.broker)].resourceVersion
            /\ \A c \in cfServiceBroker.status.conditions :
                    c.type = "Ready" => c.status = "True" /\ c.reason = "Ready"
            /\ \E c \in cfServiceBroker.status.conditions : c.type = "Ready"]_vars

\* The broker was edited and its secret replaced, and the last invocation
\* ended Ready having observed both.
C16_Witness ==
    /\ Invoked
    /\ last.current
    /\ last.result = Result(0, NoError)
    /\ brokers["b1"].generation = 2
    /\ brokers["b1"].status.observedGeneration = 2
    /\ SecretKeyOf("b1") \in DOMAIN secrets
    /\ secrets[SecretKeyOf("b1")].resourceVersion = 2
    /\ brokers["b1"].status.credentialsObservedVersion = 2

\* C17: when the list call of the mapping failed, the requests it returned
\* still name every broker that depends on the secret of the event.
C17_FailSafeLookup ==
    (requests.current /\ ~requests.listed) =>
        \A b \in Dependents(requests.secret) :
            Request(brokers[b].namespace, b) \in requests.names

(***************************************************************************)
(* ServicePlanRepo.ListPlans.  buildFails: the user client cannot be       *)
(* built; listFails: the list call is refused; items: the plans of the     *)
(* root namespace in the order the API server returns them.                *)
(***************************************************************************)
rootNamespace == "ns1"

\* plan.Labels[k]: a map lookup, the empty string for a missing key.
LabelOf(labels, k) == IF k \in DOMAIN labels THEN labels[k] ELSE ""

ServicePlanResource(name, plan) ==
    [ServicePlan |-> plan.spec,
     GUID |-> name,
     UpdatedAt |-> Nil,
     Labels |-> plan.labels,
     Annotations |-> plan.annotations,
     ServiceOfferingGUID |-> LabelOf(plan.labels, RelServiceOfferingLabel)]

\* A plausible slip: a refused list call returns the error together with
\* resources.
ListPlans_ResourcesOnError(buildFails, listFails, items) ==
    IF buildFails
    THEN [resources |-> <<>>, err |-> Error("failed to build user client", "BuildClient")]
    ELSE [resources |-> [i \in 1..Len(items) |->
                            ServicePlanResource(items[i][2], plans[items[i]])],
          err |-> IF listFails THEN Error("List", "Service Plan") ELSE NoError]

ListPlans(buildFails, listFails, items) ==
    IF buildFails
    THEN [resources |-> <<>>, err |-> Error("failed to build user client", "BuildClient")]
    ELSE IF listFails
    THEN [resources |-> <<>>, err |-> Error("List", "Service Plan")]
    ELSE [resources |-> [i \in 1..Len(items) |->
                            ServicePlanResource(items[i][2], plans[items[i]])],
          err |-> NoError]

\* The plans of a namespace, in every order.
Orderings(keys) ==
    {seq \in [1..Cardinality(keys) -> keys] : \A k \in keys : \E i \in DOMAIN seq : seq[i] = k}

ListPlansCall ==
    /\ \E buildFails \in BOOLEAN, listFails \in BOOLEAN :
        \E items \in Orderings({k \in DOMAIN plans : k[1] = rootNamespace}) :
            \E out \in {ListPlans(buildFails, listFails, items)} :
                listed' = [called |-> TRUE, resources |-> out.resources, err |-> out.err]
    /\ UNCHANGED <<brokers, secrets, upstream, offerings, plans, last, requests, inflight, fake>>

\* Another actor annotates a stored plan.
AnnotatePlan ==
    /\ \E key \in DOMAIN plans :
        /\ plans[key].annotations = <<>>
        /\ plans' = [plans EXCEPT ![key].annotations = ("note" :> "kept")]
    /\ UNCHANGED <<brokers, secrets, upstream, offerings, last, requests, inflight, listed, fake>>

(***************************************************************************)
(* SpecList: a broker in the root namespace and a broker in another, each  *)
(* reconciled against the upstream, plans annotated, and then one call of  *)
(* ListPlans, which changes nothing the reconciler reads.                  *)
(***************************************************************************)
ListShapes ==
    {<<<<"s1", <<"p1", "p2">>>>>>,
     <<<<"s1", <<"p1">>>>, <<"s2", <<"p1">>>>>>}

InitList ==
    /\ brokers = ("b1" :> NewBroker("b1", "ns1", "sec1"))
                    @@ ("b2" :> NewBroker("b2", "ns2", "sec1"))
    /\ secrets = [key \in Namespaces \X {"sec1"} |->
                    [resourceVersion |-> 1, data |-> ValidCredentials]]
    /\ upstream \in [shape : ListShapes, rev : Revisions, edits : {0}]
    /\ offerings = <<>>
    /\ plans = <<>>
    /\ last = NoInvocation
    /\ requests = NoRequests
    /\ inflight = NoUpsert
    /\ listed = NoListing
    /\ fake = NewFake

NextList ==
    \/ ~listed.called /\ ReconcileWithSecret
    \/ ~listed.called /\ AnnotatePlan
    \/ ~listed.called /\ ListPlansCall

SpecList == InitList /\ [][NextList]_vars

\* The services and plans of a catalog document in the order a walk meets
\* them, each with the record the document holds for it.
RECURSIVE CatalogEntries(_)
CatalogEntries(catalogServices) ==
    IF catalogServices = <<>> THEN <<>>
    ELSE LET service == Head(catalogServices)
         IN  <<[kind |-> "CFServiceOffering", id |-> service.ID, record |-> service]>>
             \o [j \in 1..Len(service.Plans) |->
                    [kind |-> "CFServicePlan", id |-> service.Plans[j].ID,
                     record |-> service.Plans[j]]]
             \o CatalogEntries(Tail(catalogServices))

\* The plan object holds the values the catalog plan has upstream.
PassedThrough(plan, catalogPlan) ==
    /\ plan.spec.Name = catalogPlan.Name
    /\ plan.spec.Free = catalogPlan.Free
    /\ plan.spec.Description = catalogPlan.Description
    /\ plan.spec.BrokerCatalog.ID = catalogPlan.ID
    /\ plan.spec.BrokerCatalog.Features.PlanUpdateable = catalogPlan.PlanUpdateable
    /\ plan.spec.BrokerCatalog.Features.Bindable = catalogPlan.Bindable
    /\ plan.spec.BrokerCatalog.Metadata.set
    /\ plan.spec.BrokerCatalog.Metadata.raw.members = catalogPlan.Metadata.kv
    /\ plan.spec.BrokerCatalog.Metadata.raw.json = "null" <=> catalogPlan.Metadata.isNil
    /\ plan.spec.Schemas = catalogPlan.Schemas

\* The upserts of the step's invocation that succeeded.
Upserted ==
    IF last'.result.err # NoError /\ last'.fetched /\ last'.calls # <<>>
    THEN Len(last'.calls) - 1 ELSE Len(last'.calls)

\* The step is an invocation that wrote a plan's labels or spec.
PlansWritten ==
    {k \in DOMAIN plans' :
        \/ k \notin DOMAIN plans
        \/ plans'[k].spec # plans[k].spec
        \/ plans'[k].labels # plans[k].labels}

OfferingCall(catalogServices, i) == 1 + SumLens(SubSeq(catalogServices, 1, i - 1))
PlanCall(catalogServices, i, j) == OfferingCall(catalogServices, i) + j

\* The CreateOrPatch call the last invocation made at position n, the
\* answer it got, and whether it made one there.
Made(n) == n <= Len(last.calls)
AnswerOf(n) == last.steps[StepRank("CreateOrPatch") - 1 + n][2]
IsCall(n, kind, id) == last.calls[n].kind = kind /\ last.calls[n].id = id

\* C19: within one invocation the services are upserted in the order of the
\* catalog document, each service's offering before any of its plans, all
\* plans of a service in catalog order before the next service's offering;
\* a call is made only when every call before it succeeded, so a failed
\* offering upsert means none of that service's plans is upserted; a walk
\* with no failure makes every call.
C19_WalkOrder ==
    (Invoked /\ last.current /\ last.fetched) =>
        LET services == Served(upstream).Services
        IN  /\ Len(last.calls) <= NumUpserts(Served(upstream))
            /\ \A i \in 1..Len(services) :
                LET o == OfferingCall(services, i)
                IN  /\ Made(o) => IsCall(o, "CFServiceOffering", services[i].ID)
                    /\ \A j \in 1..Len(services[i].Plans) :
                        LET p == PlanCall(services, i, j)
                        IN  /\ Made(p) => IsCall(p, "CFServicePlan", services[i].Plans[j].ID)
                            /\ Made(p) => Made(o) /\ AnswerOf(o) = "ok"
            /\ \A n \in 1..Len(last.calls) :
                    AnswerOf(n) = "error" => n = Len(last.calls)
            /\ Succeeded => Len(last.calls) = NumUpserts(Served(upstream))

\* The offering upsert of the second service failed after the first
\* service's offering and plan were upserted; the second service lists a
\* plan, for which no call was made.
C19_Witness ==
    /\ Invoked /\ last.current /\ last.fetched
    /\ Len(upstream.shape) = 2
    /\ Len(upstream.shape[1][2]) = 1 /\ Len(upstream.shape[2][2]) = 1
    /\ Len(last.calls) = 3
    /\ last.calls[3].kind = "CFServiceOffering"
    /\ AnswerOf(3) = "error"

(***************************************************************************)
(* The back-references of the plans, checked under SpecWalk.               *)
(***************************************************************************)
\* The plan objects of the broker's namespace that hold the catalog plan ID.
PlanObjectsFor(b, id) ==
    {key \in DOMAIN plans :
        key[1] = brokers[b].namespace /\ plans[key].spec.BrokerCatalog.ID = id}

\* The labels hold the value under the key.
Labelled(labels, k, v) == k \in DOMAIN labels /\ labels[k] = v

\* Some plan object for the ID is labelled with the broker and the offering.
BackReferenced(b, offeringName, id) ==
    \E key \in PlanObjectsFor(b, id) :
        /\ Labelled(plans[key].labels, RelServiceBrokerLabel, b)
        /\ Labelled(plans[key].labels, RelServiceOfferingLabel, offeringName)

\* The services of the document that list a plan of the ID, by position, and
\* the one the walk meets last.
Listing(catalogServices, id) ==
    {i \in 1..Len(catalogServices) :
        \E j \in 1..Len(catalogServices[i].Plans) : catalogServices[i].Plans[j].ID = id}
LastListing(catalogServices, id) ==
    CHOOSE i \in Listing(catalogServices, id) :
        \A k \in Listing(catalogServices, id) : k <= i

AfterSuccess == Invoked /\ last.current /\ last.fetched /\ Succeeded

\* C20 as stated: after a successful reconciliation every plan listed under
\* a service has a plan object labelled with the broker and with the name of
\* that service's offering object, whatever the catalog.
C20_Original ==
    AfterSuccess =>
        LET services == Served(upstream).Services
        IN  \A i \in 1..Len(services) : \A j \in 1..Len(services[i].Plans) :
                BackReferenced(last.broker, NamespacedUUID(last.broker, services[i].ID),
                               services[i].Plans[j].ID)

\* C20, amended: after a successful reconciliation every plan listed under a
\* service has the plan object named from the broker and the plan's ID; it
\* holds the plan's ID and is labelled with the broker and with the name of
\* the offering object of the last service of the catalog that lists the
\* plan's ID, and that offering object exists.  The label names the listing
\* service's own offering whenever no other service lists the same plan ID.
C20_BackReferences ==
    AfterSuccess =>
        LET services == Served(upstream).Services
            namespace == brokers[last.broker].namespace
        IN  \A i \in 1..Len(services) : \A j \in 1..Len(services[i].Plans) :
                LET id == services[i].Plans[j].ID
                    key == <<namespace, NamespacedUUID(last.broker, id)>>
                    owner == services[LastListing(services, id)].ID
                    offeringName == NamespacedUUID(last.broker, owner)
                IN  /\ key \in PlanObjectsFor(last.broker, id)
                    /\ Labelled(plans[key].labels, RelServiceBrokerLabel, last.broker)
                    /\ Labelled(plans[key].labels, RelServiceOfferingLabel, offeringName)
                    /\ <<namespace, offeringName>> \in DOMAIN offerings
                    /\ Listing(services, id) = {i} =>
                        BackReferenced(last.broker,
                                       NamespacedUUID(last.broker, services[i].ID), id)

\* A successful reconciliation of a catalog whose two services list a plan
\* of the same ID: the plan has one object.
C20_Witness ==
    /\ AfterSuccess
    /\ upstream.shape = <<<<"s1", <<"p1">>>>, <<"s2", <<"p1">>>>>>
    /\ Cardinality(DOMAIN plans) = 1
    /\ Cardinality(DOMAIN offerings) = 2

(***************************************************************************)
(* Referential integrity of the back-references, checked under SpecWalk:   *)
(* the store starts empty, every invocation may fail at the catalog fetch  *)
(* or at any upsert, and the catalog changes between invocations.          *)
(***************************************************************************)
\* The offering object the plan object's offering label names, in the plan's
\* namespace.
OfferingKeyOf(planKey) == <<planKey[1], plans[planKey].labels[RelServiceOfferingLabel]>>

\* C21: in every reachable state each plan object carries an offering label
\* and a broker label, its offering label names an offering object that
\* exists in the plan's namespace, and that offering's broker label equals
\* the plan's broker label.
C21_ReferentialIntegrity ==
    \A planKey \in DOMAIN plans :
        /\ {RelServiceOfferingLabel, RelServiceBrokerLabel} \subseteq DOMAIN plans[planKey].labels
        /\ OfferingKeyOf(planKey) \in DOMAIN offerings
        /\ Labelled(offerings[OfferingKeyOf(planKey)].labels, RelServiceBrokerLabel,
                    plans[planKey].labels[RelServiceBrokerLabel])

\* An invocation failed at an upsert after the catalog changed, and the
\* store holds two plans under two offerings from the walks so far.
C21_Witness ==
    /\ Invoked /\ last.current /\ last.fetched /\ ~Succeeded
    /\ upstream.edits > 0
    /\ Cardinality(DOMAIN plans) = 2
    /\ Cardinality({OfferingKeyOf(planKey) : planKey \in DOMAIN plans}) = 2

(***************************************************************************)
(* What an invocation records on the broker, checked under Spec.           *)
(***************************************************************************)
\* The invocation that ends this step got the answer from the call.
AnsweredNext(call, answer) ==
    \E i \in 1..Len(last'.steps) : last'.steps[i] = <<call, answer>>

\* C22: an invocation sets the broker's observed credentials version to the
\* resource version of the secret it fetched when the secret passed
\* validation, whatever follows (catalog fetch failure, upsert failure,
\* success), and leaves it as it was when the secret is absent, its read
\* fails or validation fails; it changes no other broker's.
C22_ObservedVersionFrame ==
    [][InvocationStep =>
        LET b == last'.broker
            before == brokers[b].status.credentialsObservedVersion
            after == brokers'[b].status.credentialsObservedVersion
        IN  /\ AnsweredNext("validateCredentials", "ok") =>
                    after = secrets[SecretKeyOf(b)].resourceVersion
            /\ ~AnsweredNext("validateCredentials", "ok") => after = before
            /\ AnsweredNext("validateCredentials", "ok") <=>
                    /\ SecretKeyOf(b) \in DOMAIN secrets
                    /\ AnsweredNext("Get", "ok")
                    /\ validateCredentials(secrets[SecretKeyOf(b)]) = NoError
            /\ \A other \in DOMAIN brokers \ {b} : brokers'[other] = brokers[other]]_vars

\* The last invocation validated the replaced secret, recorded its resource
\* version and ended not ready because an upsert failed.
C22_Witness ==
    /\ Invoked /\ last.current
    /\ Answered("validateCredentials", "ok")
    /\ Answered("CreateOrPatch", "error")
    /\ \E c \in ReadyConditions("b1") : c.status = "False"
    /\ SecretKeyOf("b1") \in DOMAIN secrets
    /\ secrets[SecretKeyOf("b1")].resourceVersion = 2
    /\ brokers["b1"].status.credentialsObservedVersion = 2

\* C23: after every invocation, whatever its outcome, the broker's observed
\* generation equals the generation the broker had when it was invoked; no
\* other broker's is touched.
C23_ObservedGeneration ==
    [][InvocationStep =>
        /\ brokers'[last'.broker].status.observedGeneration = brokers[last'.broker].generation
        /\ \A other \in DOMAIN brokers \ {last'.broker} :
                brokers'[other].status.observedGeneration
                    = brokers[other].status.observedGeneration]_vars

\* The broker was edited and the invocation that followed found no secret:
\* it recorded the new generation all the same.
C23_Witness ==
    /\ Invoked /\ last.current
    /\ Answered("Get", "NotFound")
    /\ brokers["b1"].generation = 2
    /\ brokers["b1"].status.observedGeneration = 2
    /\ brokers["b1"].status.credentialsObservedVersion = 0

(***************************************************************************)
(* The CFServicePlanRepository fake (generated by counterfeiter) called    *)
(* by concurrent goroutines.  Each method is the sequence of its lock      *)
(* operations and of the statements between them; recordInvocation is      *)
(* inlined in ListPlans, and a deferred unlock stands where it runs.  Lock *)
(* is two steps, as in sync.RWMutex: the caller first excludes the other   *)
(* writers and the new readers, then waits for the readers to leave.       *)
(***************************************************************************)
FakeMethods ==
    {"ListPlans", "ListPlansCallCount", "ListPlansArgsForCall", "ListPlansReturns",
     "Invocations"}

Code(op) ==
    CASE op = "ListPlans" ->
            <<<<"Lock", "listPlansMutex">>, <<"Wait", "listPlansMutex">>,
              <<"Do", "appendArgs">>,
              <<"Lock", "invocationsMutex">>, <<"Wait", "invocationsMutex">>,
              <<"Do", "recordInvocation">>,
              <<"Unlock", "invocationsMutex">>, <<"Unlock", "listPlansMutex">>,
              <<"Return", "fakeReturns">>>>
      [] op = "ListPlansCallCount" ->
            <<<<"RLock", "listPlansMutex">>, <<"Do", "len">>,
              <<"RUnlock", "listPlansMutex">>, <<"Return", "len">>>>
      [] op = "ListPlansArgsForCall" ->
            <<<<"RLock", "listPlansMutex">>, <<"Do", "index">>,
              <<"RUnlock", "listPlansMutex">>, <<"Return", "argsForCall">>>>
      [] op = "ListPlansReturns" ->
            <<<<"Lock", "listPlansMutex">>, <<"Wait", "listPlansMutex">>,
              <<"Do", "setReturns">>,
              <<"Unlock", "listPlansMutex">>, <<"Return", "">>>>
      [] op = "Invocations" ->
            <<<<"RLock", "invocationsMutex">>, <<"RLock", "listPlansMutex">>,
              <<"Do", "copyInvocations">>,
              <<"RUnlock", "listPlansMutex">>, <<"RUnlock", "invocationsMutex">>,
              <<"Return", "copiedInvocations">>>>

\* The arguments a goroutine may pass to a method.
ArgsOf(op) ==
    CASE op = "ListPlansArgsForCall" -> 0..1
      [] op = "ListPlansReturns" -> {"r1", "r2"}
      [] OTHER -> {Nil}

InCall(t) == fake.pc[t].op # "idle"
Instr(t) == Code(fake.pc[t].op)[fake.pc[t].at]
AtInstr(t, kind) == InCall(t) /\ Instr(t)[1] = kind
Advance(f, t) == [f EXCEPT !.pc[t].at = @ + 1]

\* A goroutine calls a method of the fake.
CallFake(t) ==
    /\ ~InCall(t)
    /\ fake.calls[t] < MaxCalls
    /\ \E op \in FakeMethods : \E arg \in ArgsOf(op) :
        fake' = [fake EXCEPT !.pc[t] = [op |-> op, at |-> 1, arg |-> arg, local |-> Nil],
                             !.calls[t] = @ + 1]
    /\ UNCHANGED <<brokers, secrets, upstream, offerings, plans, last, requests, inflight,
                   listed>>

\* m.Lock(), first half: take the writers' turn; a goroutine that finds it
\* taken blocks.
LockStep(t) ==
    /\ AtInstr(t, "Lock")
    /\ fake[Instr(t)[2]].w = Nil
    /\ fake' = Advance([fake EXCEPT ![Instr(t)[2]].w = t], t)
    /\ UNCHANGED <<brokers, secrets, upstream, offerings, plans, last, requests, inflight,
                   listed>>

\* m.Lock(), second half: block until the readers have left.
WaitStep(t) ==
    /\ AtInstr(t, "Wait")
    /\ fake[Instr(t)[2]].readers = {}
    /\ fake' = Advance([fake EXCEPT ![Instr(t)[2]].locked = TRUE], t)
    /\ UNCHANGED <<brokers, secrets, upstream, offerings, plans, last, requests, inflight,
                   listed>>

\* m.RLock(): blocks while a writer holds the lock or waits for it.
RLockStep(t) ==
    /\ AtInstr(t, "RLock")
    /\ fake[Instr(t)[2]].w = Nil
    /\ fake' = Advance([fake EXCEPT ![Instr(t)[2]].readers = @ \cup {t}], t)
    /\ UNCHANGED <<brokers, secrets, upstream, offerings, plans, last, requests, inflight,
                   listed>>

UnlockStep(t) ==
    /\ AtInstr(t, "Unlock")
    /\ fake' = Advance([fake EXCEPT ![Instr(t)[2]] = NewMutex], t)
    /\ UNCHANGED <<brokers, secrets, upstream, offerings, plans, last, requests, inflight,
                   listed>>

RUnlockStep(t) ==
    /\ AtInstr(t, "RUnlock")
    /\ fake' = Advance([fake EXCEPT ![Instr(t)[2]].readers = @ \ {t}], t)
    /\ UNCHANGED <<brokers, secrets, upstream, offerings, plans, last, requests, inflight,
                   listed>>

\* The statements of a method between its lock operations.  An index out of
\* range panics; the deferred RUnlock runs all the same.
Do(f, t, what) ==
    CASE what = "appendArgs" ->
            [f EXCEPT !.listPlansArgsForCall = Append(@, t),
                      !.pc[t].local = f.listPlansReturns]
      [] what = "recordInvocation" ->
            [f EXCEPT !.invocations = Append(@, <<"ListPlans", t>>)]
      [] what = "len" ->
            [f EXCEPT !.pc[t].local = Len(f.listPlansArgsForCall)]
      [] what = "index" ->
            [f EXCEPT !.pc[t].local =
                IF f.pc[t].arg < Len(f.listPlansArgsForCall)
                THEN f.listPlansArgsForCall[f.pc[t].arg + 1]
                ELSE "panic: index out of range"]
      [] what = "setReturns" ->
            [f EXCEPT !.listPlansReturns = f.pc[t].arg]
      [] what = "copyInvocations" ->
            [f EXCEPT !.pc[t].local = f.invocations]

DoStep(t) ==
    /\ AtInstr(t, "Do")
    /\ fake' = Advance(Do(fake, t, Instr(t)[2]), t)
    /\ UNCHANGED <<brokers, secrets, upstream, offerings, plans, last, requests, inflight,
                   listed>>

\* The call returns to the goroutine.
ReturnStep(t) ==
    /\ AtInstr(t, "Return")
    /\ fake' = [fake EXCEPT !.ret[t] = fake.pc[t].local,
                            !.pc[t] = [op |-> "idle", at |-> 0, arg |-> Nil, local |-> Nil]]
    /\ UNCHANGED <<brokers, secrets, upstream, offerings, plans, last, requests, inflight,
                   listed>>

(***************************************************************************)
(* SpecFake: two goroutines, each making up to MaxCalls calls on one fake. *)
(***************************************************************************)
InitFake ==
    /\ brokers = ("b1" :> NewBroker("b1", "ns1", "sec1"))
    /\ secrets = <<>>
    /\ upstream = [shape |-> <<>>, rev |-> "v1", edits |-> 0]
    /\ offerings = <<>>
    /\ plans = <<>>
    /\ last = NoInvocation
    /\ requests = NoRequests
    /\ inflight = NoUpsert
    /\ listed = NoListing
    /\ fake = NewFake

NextFake ==
    \E t \in Threads :
        \/ CallFake(t)
        \/ LockStep(t)
        \/ WaitStep(t)
        \/ RLockStep(t)
        \/ UnlockStep(t)
        \/ RUnlockStep(t)
        \/ DoStep(t)
        \/ ReturnStep(t)

SpecFake == InitFake /\ [][NextFake]_vars

\* The goroutine is in a call and its next step is a lock operation that
\* cannot be taken now.
Blocked(t) ==
    \/ AtInstr(t, "Lock") /\ fake[Instr(t)[2]].w # Nil
    \/ AtInstr(t, "Wait") /\ fake[Instr(t)[2]].readers # {}
    \/ AtInstr(t, "RLock") /\ fake[Instr(t)[2]].w # Nil

\* C24: whatever the interleaving of the calls, the goroutines that are in a
\* call are never all blocked: some call can always take its next step, so
\* that every call returns.
C24_DeadlockFreedom ==
    (\E t \in Threads : InCall(t)) => \E t \in Threads : InCall(t) /\ ~Blocked(t)

=============================================================================
